---- MODULE Spec2Model ----
(***************************************************************************)
(* A model of the DANE TLS authentication library (package dane).          *)
(*                                                                         *)
(*   SpecVerify  one Config, its setters, and DialTLS / DialStartTLS with  *)
(*               the verifyServer callback (byname.go)                     *)
(*   SpecMatch   ChainMatchesTLSA applied to one chain and one record      *)
(*   SpecDNS     GetTLSA applied to the outcome of one DNS exchange        *)
(*   SpecByName  ConnectByName and ConnectByNameAsyncBase (part_006)       *)
(*   SpecHeadstart  the goroutines of ConnectByNameAsyncBase with a clock  *)
(*               that counts in units of half an IPv6Headstart             *)
(*   SpecAuth    AuthenticateSingle and AuthenticateAll of tlsa.go on one  *)
(*               Config                                                    *)
(*   SpecCopy    Config.SetTLSA on two Configs sharing one source          *)
(*               TLSAinfo, with records held by reference                  *)
(*   SpecStartTLS  DialStartTLS against scripted servers (part_007)        *)
(*   SpecCalls   single calls of ComputeTLSA, NewServer and NewConfig      *)
(*                                                                         *)
(* Every specification constrains all variables; the variables of the      *)
(* other specifications stay at their idle values.                         *)
(***************************************************************************)
EXTENDS Integers, Sequences, FiniteSets, TLC

VARIABLES
    \* --- SpecVerify
    config,     \* the dane.Config of the attempt
    tlsaSrc,    \* the TLSAinfo the caller obtained (GetTLSA's result)
    vpc,        \* "config" while the caller prepares, "done" after the dial
    via,        \* which dial function ran: "DialTLS" | "DialStartTLS" | "none"
    peer,       \* raw certificates the server presented (<<>> before)
    verr,       \* verifyServer's return value, "notcalled" if it never ran
    dconn,      \* the dial's returned connection: "nil" | "conn"
    derr,       \* the dial's returned error
    \* --- SpecMatch
    mchain, mtr, mokpkix, mres, mpc,
    \* --- SpecDNS
    resolver, exchange, tlsaRes, dpc,
    addrCall,   \* GetAddresses' secure argument and the two exchanges
    addrRes,    \* GetAddresses' result
    \* --- SpecByName
    entry, mainPc, tlsa, iplist, lookups, tasks, launcher, conn, err,
    \* dialed: positions of iplist DialTLS was called for; dialedOk: those
    \* whose DialTLS returned a nil error
    tokens, results, done, wg, ret, dialed, dialedOk,
    \* age[i]: clock ticks task i spent from its start to the return of its
    \* DialTLS; <<>> where time is not tracked
    age,
    \* --- SpecAuth
    acfg,       \* the Config passed to the authentication function
    achain,     \* AuthenticateSingle's chain argument (<<>> otherwise)
    aidx,       \* position in acfg.TLSA.Rdata of its record argument
    ares,       \* AuthenticateSingle's return value
    apc,        \* "init" | "single" | "all"
    \* --- SpecCopy
    heap,       \* the allocated TLSArdata structs, by address
    infos,      \* the allocated TLSAinfo structs, by address
    tlsaOf,     \* the TLSA pointer of Config A and of Config B (0: nil)
    \* --- SpecStartTLS
    sconfig,    \* the Config passed to DialStartTLS
    session,    \* the exchange of the last DialStartTLS call
    sdials,     \* number of DialStartTLS calls made with sconfig
    \* --- SpecCalls
    fcall,      \* the function called and its arguments (<<>> before)
    fres        \* what it returned

verifyVars == <<config, tlsaSrc, vpc, via, peer, verr, dconn, derr>>
matchVars  == <<mchain, mtr, mokpkix, mres, mpc>>
dnsVars    == <<resolver, exchange, tlsaRes, dpc, addrCall, addrRes>>
byNameVars == <<entry, mainPc, tlsa, iplist, lookups, tasks, launcher, conn,
                err, tokens, results, done, wg, ret, dialed, dialedOk, age>>
authVars   == <<acfg, achain, aidx, ares, apc>>
copyVars   == <<heap, infos, tlsaOf>>
startVars  == <<sconfig, session, sdials>>
callVars   == <<fcall, fres>>
vars == <<verifyVars, matchVars, dnsVars, byNameVars, authVars, copyVars,
         startVars, callVars>>

-----------------------------------------------------------------------------
(* Bounds *)

\* Longest TLSA RRset a caller installs.
MaxRdata == 2

-----------------------------------------------------------------------------
(* Go's nil error and the error texts of the library *)

NoErr == "nil"
ErrParse == "failed to parse server certificate"
ErrX509 == "x509: certificate signed by unknown authority"
ErrHostname == "x509: certificate is not valid for the server name"
ErrDaneChain == "DANE TLS error: cert chain: " \o ErrX509
ErrDaneAuth == "DANE TLS authentication failed"
ErrTCP == "dial tcp: connection failed"
ErrSTARTTLS == "STARTTLS negotiation failed"
ErrUnknownApp == "unknown STARTTLS application"

-----------------------------------------------------------------------------
(* Certificates.  A certificate is its DER encoding (raw), its              *)
(* SubjectPublicKeyInfo encoding (spki), subject and issuer names and the   *)
(* DNS names it is valid for.  parseok is FALSE for bytes that              *)
(* x509.ParseCertificate rejects.  raw and spki identifiers are disjoint:   *)
(* they stand for different byte strings.                                   *)

Cert(raw, spki, subject, issuer, names) ==
    [raw |-> raw, spki |-> spki, subject |-> subject, issuer |-> issuer,
     names |-> names, parseok |-> TRUE]

HostName == "host"

RootCA    == Cert(1, 11, "R", "R", {})
IntCA     == Cert(2, 12, "I", "R", {})
Leaf      == Cert(3, 13, "L", "I", {HostName})
LeafOther == Cert(4, 14, "M", "I", {"other"})
PrivRoot  == Cert(5, 15, "P", "P", {})
PrivLeaf  == Cert(6, 16, "Q", "P", {HostName})
Garbage   == [raw |-> 0, spki |-> 0, subject |-> "", issuer |-> "",
              names |-> {}, parseok |-> FALSE]

\* The system trust store (tls.Config.RootCAs == nil selects it).
SystemRoots == {RootCA}

\* What a server may present in its Certificate message, leaf first.
PeerChains ==
    { <<Leaf, IntCA, RootCA>>,     \* PKIX-valid, right name
      <<LeafOther, IntCA>>,        \* PKIX-valid, wrong name
      <<PrivLeaf, PrivRoot>>,      \* private CA: only the self-anchored build works
      <<PrivLeaf, IntCA>>,         \* neither build works
      <<Leaf>>,                    \* intermediate missing: PKIX fails
      <<Garbage>>,                 \* undecodable certificate
      <<Leaf, Garbage>> }          \* undecodable certificate after the leaf

SeqToSet(s) == {s[i] : i \in 1..Len(s)}
Tail1(s) == SubSeq(s, 2, Len(s))

RECURSIVE SetToSeq(_)
SetToSeq(S) ==
    IF S = {} THEN <<>>
    ELSE LET x == CHOOSE y \in S : TRUE IN <<x>> \o SetToSeq(S \ {x})

\* x509.Certificate.VerifyHostname
VerifyHostname(cert, name) ==
    IF name \in cert.names THEN NoErr ELSE ErrHostname

\* x509 chain building: every path from the last certificate of chain
\* through intermediates to a root, following issuer names.
RECURSIVE BuildChains(_, _, _)
BuildChains(chain, inter, roots) ==
    LET c == chain[Len(chain)]
        InChain(p) == \E i \in 1..Len(chain) : chain[i] = p
        viaRoots == {Append(chain, r) :
                        r \in {x \in roots : x.subject = c.issuer /\ ~InChain(x)}}
        viaInter == UNION {BuildChains(Append(chain, m), inter, roots) :
                        m \in {x \in inter : x.subject = c.issuer /\ ~InChain(x)}}
    IN  viaRoots \cup viaInter

\* x509.Certificate.Verify: a certificate that is itself a root is its own
\* chain; no chain at all is an error.
verifyResult(chains) ==
    [chains |-> SetToSeq(chains), err |-> IF chains = {} THEN ErrX509 ELSE NoErr]

Verify(c, inter, roots) ==
    verifyResult(IF c \in roots THEN {<<c>>} ELSE BuildChains(<<c>>, inter, roots))

verifyChain(certs, root) ==
    IF root
    THEN Verify(certs[1], SeqToSet(Tail1(certs)), SystemRoots)
    ELSE Verify(certs[1],
                IF Len(certs) >= 3 THEN SeqToSet(Tail1(certs)) ELSE {},
                {certs[Len(certs)]})

-----------------------------------------------------------------------------
(* TLSA records and ComputeTLSA *)

PkixTA == 0
PkixEE == 1
DaneTA == 2
DaneEE == 3

\* A lowercase hex string, by what it encodes: digest alg of preimage pre.
Hex(alg, pre) == [alg |-> alg, pre |-> pre]
EmptyHex == Hex("", 0)
BogusHex == Hex("sha256", 0)

ComputeTLSA_AlwaysRaw(selector, mtype, cert) ==
    IF mtype = 0 THEN [hash |-> Hex("full", cert.raw), err |-> NoErr]
    ELSE IF mtype = 1 THEN [hash |-> Hex("sha256", cert.raw), err |-> NoErr]
    ELSE IF mtype = 2 THEN [hash |-> Hex("sha512", cert.raw), err |-> NoErr]
    ELSE [hash |-> EmptyHex,
          err |-> "unknown TLSA matching type: " \o ToString(mtype)]

ComputeTLSA(selector, mtype, cert) ==
    LET preimage == IF selector = 0 THEN cert.raw ELSE cert.spki
    IN  IF selector \notin {0, 1}
        THEN [hash |-> EmptyHex,
              err |-> "unknown TLSA selector: " \o ToString(selector)]
        ELSE IF mtype = 0 THEN [hash |-> Hex("full", preimage), err |-> NoErr]
        ELSE IF mtype = 1 THEN [hash |-> Hex("sha256", preimage), err |-> NoErr]
        ELSE IF mtype = 2 THEN [hash |-> Hex("sha512", preimage), err |-> NoErr]
        ELSE [hash |-> EmptyHex,
              err |-> "unknown TLSA matching type: " \o ToString(mtype)]

TLSArdata(usage, selector, mtype, data) ==
    [Usage |-> usage, Selector |-> selector, Mtype |-> mtype, Data |-> data,
     Checked |-> FALSE, Ok |-> FALSE, Message |-> ""]

\* A nil *TLSAinfo has isnil = TRUE.
TLSAinfo(qname, alias, rdata) ==
    [isnil |-> FALSE, Qname |-> qname, Alias |-> alias, Rdata |-> rdata]
NilTLSA == [isnil |-> TRUE, Qname |-> "", Alias |-> <<>>, Rdata |-> <<>>]

Copy(t) ==
    TLSAinfo(t.Qname, t.Alias,
             [i \in 1..Len(t.Rdata) |->
                 TLSArdata(t.Rdata[i].Usage, t.Rdata[i].Selector,
                           t.Rdata[i].Mtype, t.Rdata[i].Data)])

Uncheck(t) ==
    [t EXCEPT !.Rdata = [i \in 1..Len(t.Rdata) |->
        [t.Rdata[i] EXCEPT !.Checked = FALSE, !.Ok = FALSE, !.Message = ""]]]

\* The gate `tr.Usage == DaneEE || daneconfig.Okpkix` (and its DaneTA twin):
\* a DANE usage stands on its own, a PKIX usage needs PKIX success.
UsageGate_NoPkix(usage, daneUsage, okpkix) == TRUE

UsageGate(usage, daneUsage, okpkix) == usage = daneUsage \/ okpkix

\* The loop over chain[1:] of the PkixTA/DaneTA case, from Go index i
\* (depth i+1); st carries Authenticated, hashMatched and the record.
RECURSIVE TAloop(_, _, _, _)
TAloop(chain, i, okpkix, st) ==
    IF i + 2 > Len(chain) THEN st
    ELSE LET h == ComputeTLSA(st.tr.Selector, st.tr.Mtype, chain[i + 2])
         IN  IF h.err # NoErr
             THEN [st EXCEPT !.tr.Ok = FALSE, !.tr.Message = h.err]   \* break
             ELSE IF h.hash # st.tr.Data
             THEN TAloop(chain, i + 1, okpkix, st)                     \* continue
             ELSE IF UsageGate(st.tr.Usage, DaneTA, okpkix)
             THEN TAloop(chain, i + 1, okpkix,
                         [auth |-> TRUE, matched |-> TRUE,
                          tr |-> [st.tr EXCEPT !.Ok = TRUE, !.Message =
                              "matched TA certificate at depth " \o ToString(i + 1)]])
             ELSE TAloop(chain, i + 1, okpkix,
                         [auth |-> st.auth, matched |-> TRUE,
                          tr |-> [st.tr EXCEPT !.Ok = FALSE, !.Message =
                              "matched TA certificate at depth " \o ToString(i + 1)
                                  \o " but PKIX failed"]])

\* `if !hashMatched` after the loop
TAresult(st) ==
    IF ~st.matched
    THEN [auth |-> st.auth,
          tr |-> [st.tr EXCEPT !.Ok = FALSE,
                  !.Message = "did not match any TA certificate"]]
    ELSE [auth |-> st.auth, tr |-> st.tr]

ChainMatchesTLSA_FromLeaf(chain, tr0, daneconfig) ==
    LET tr == [tr0 EXCEPT !.Checked = TRUE]
        okpkix == daneconfig.Okpkix
    IN  IF tr.Usage \in {PkixEE, DaneEE} THEN
            LET h == ComputeTLSA(tr.Selector, tr.Mtype, chain[1])
            IN  IF h.err # NoErr
                THEN [auth |-> FALSE,
                      tr |-> [tr EXCEPT !.Ok = FALSE, !.Message = h.err]]
                ELSE IF h.hash = tr.Data
                THEN IF UsageGate(tr.Usage, DaneEE, okpkix)
                     THEN [auth |-> TRUE,
                           tr |-> [tr EXCEPT !.Ok = TRUE,
                                   !.Message = "matched EE certificate"]]
                     ELSE [auth |-> FALSE,
                           tr |-> [tr EXCEPT !.Ok = FALSE, !.Message =
                                   "matched EE certificate but PKIX failed"]]
                ELSE [auth |-> FALSE,
                      tr |-> [tr EXCEPT !.Ok = FALSE,
                              !.Message = "did not match EE certificate"]]
        ELSE IF tr.Usage \in {PkixTA, DaneTA} THEN
            TAresult(TAloop(chain, -1, okpkix,
                            [auth |-> FALSE, matched |-> FALSE, tr |-> tr]))
        ELSE [auth |-> FALSE,
              tr |-> [tr EXCEPT !.Ok = FALSE, !.Message =
                      "invalid usage mode: " \o ToString(tr.Usage)]]

ChainMatchesTLSA(chain, tr0, daneconfig) ==
    LET tr == [tr0 EXCEPT !.Checked = TRUE]
        okpkix == daneconfig.Okpkix
    IN  IF tr.Usage \in {PkixEE, DaneEE} THEN
            LET h == ComputeTLSA(tr.Selector, tr.Mtype, chain[1])
            IN  IF h.err # NoErr
                THEN [auth |-> FALSE,
                      tr |-> [tr EXCEPT !.Ok = FALSE, !.Message = h.err]]
                ELSE IF h.hash = tr.Data
                THEN IF UsageGate(tr.Usage, DaneEE, okpkix)
                     THEN [auth |-> TRUE,
                           tr |-> [tr EXCEPT !.Ok = TRUE,
                                   !.Message = "matched EE certificate"]]
                     ELSE [auth |-> FALSE,
                           tr |-> [tr EXCEPT !.Ok = FALSE, !.Message =
                                   "matched EE certificate but PKIX failed"]]
                ELSE [auth |-> FALSE,
                      tr |-> [tr EXCEPT !.Ok = FALSE,
                              !.Message = "did not match EE certificate"]]
        ELSE IF tr.Usage \in {PkixTA, DaneTA} THEN
            TAresult(TAloop(chain, 0, okpkix,
                            [auth |-> FALSE, matched |-> FALSE, tr |-> tr]))
        ELSE [auth |-> FALSE,
              tr |-> [tr EXCEPT !.Ok = FALSE, !.Message =
                      "invalid usage mode: " \o ToString(tr.Usage)]]

smtpUsageOK_Any(tr, cfg) == TRUE

smtpUsageOK(tr, cfg) ==
    IF cfg.SMTPAnyMode THEN TRUE
    ELSE IF tr.Usage = 2 \/ tr.Usage = 3 THEN TRUE
    ELSE FALSE

\* The name check that follows a match m of ChainMatchesTLSA: DANE-EE
\* skips it unless DaneEEname.
nameCheck_Skip(m, chain, daneconfig) == m

nameCheck(m, chain, daneconfig) ==
    IF ~m.auth THEN m
    ELSE IF m.tr.Usage = DaneEE /\ ~daneconfig.DaneEEname THEN m
    ELSE IF VerifyHostname(chain[1], daneconfig.Server.Name) = NoErr
    THEN m
    ELSE [auth |-> FALSE,
          tr |-> [m.tr EXCEPT !.Ok = FALSE,
                  !.Message = @ \o " but name check failed"]]

\* AuthenticateSingle of tlsa.go: one chain against one record.
AuthenticateSingle(chain, tr0, daneconfig) ==
    IF daneconfig.Appname = "smtp" /\ ~smtpUsageOK(tr0, daneconfig)
    THEN [auth |-> FALSE,
          tr |-> [tr0 EXCEPT !.Checked = TRUE, !.Ok = FALSE,
                  !.Message = "invalid usage mode for smtp"]]
    ELSE nameCheck(ChainMatchesTLSA(chain, [tr0 EXCEPT !.Checked = TRUE],
                                    daneconfig),
                   chain, daneconfig)

\* AuthenticateSingle of part_003 (the revision verifyServer of byname.go
\* calls): one chain against every record of the Config's RRset; its loop
\* body is the per-record logic above.
perRecord(daneconfig, res) ==
    [auth |-> \E i \in 1..Len(res) : res[i].auth,
     cfg |-> [daneconfig EXCEPT !.TLSA.Rdata =
                 [i \in 1..Len(res) |-> res[i].tr]]]

AuthenticateSingleVC(chain, daneconfig) ==
    perRecord(daneconfig,
              [i \in 1..Len(daneconfig.TLSA.Rdata) |->
                  AuthenticateSingle(chain, daneconfig.TLSA.Rdata[i], daneconfig)])

\* AuthenticateAll of part_003: the verified chains in order, returning at
\* the first chain that authenticates.
RECURSIVE AuthenticateAllVC(_, _)
nextChain(s, k) == IF s.auth THEN s ELSE AuthenticateAllVC(s.cfg, k + 1)

AuthenticateAllVC(daneconfig, k) ==
    IF k > Len(daneconfig.VerifiedChains)
    THEN [auth |-> FALSE, cfg |-> daneconfig]
    ELSE nextChain(AuthenticateSingleVC(daneconfig.VerifiedChains[k], daneconfig),
                   k)

\* AuthenticateAll of tlsa.go: every record against the chains its usage
\* selects.  `chains` is declared outside the loop over the records: a
\* usage that matches no case leaves it at the previous record's value
\* (nil at the first record).
chainsFor(usage, daneconfig, chains) ==
    IF usage \in {DaneEE, DaneTA} THEN daneconfig.DANEChains
    ELSE IF usage \in {PkixEE, PkixTA} THEN daneconfig.PKIXChains
    ELSE chains

\* `if AuthenticateSingle(chain, tr, daneconfig) { daneconfig.Okdane = true }`
afterSingle(a, st) == [tr |-> a.tr, ok |-> st.ok \/ a.auth]

RECURSIVE overChains(_, _, _, _)
overChains(chains, j, daneconfig, st) ==
    IF j > Len(chains) THEN st
    ELSE overChains(chains, j + 1, daneconfig,
                    afterSingle(AuthenticateSingle(chains[j], st.tr, daneconfig),
                                st))

recordDone(daneconfig, i, r) ==
    [daneconfig EXCEPT !.TLSA.Rdata[i] = r.tr, !.Okdane = @ \/ r.ok]

RECURSIVE overRecords(_, _, _)
withChains(daneconfig, i, chains) ==
    overRecords(recordDone(daneconfig, i,
                           overChains(chains, 1, daneconfig,
                                      [tr |-> daneconfig.TLSA.Rdata[i],
                                       ok |-> FALSE])),
                i + 1, chains)

overRecords(daneconfig, i, chains) ==
    IF i > Len(daneconfig.TLSA.Rdata) THEN daneconfig
    ELSE withChains(daneconfig, i,
                    chainsFor(daneconfig.TLSA.Rdata[i].Usage, daneconfig, chains))

AuthenticateAll_KeepOkdane(daneconfig) == overRecords(daneconfig, 1, <<>>)

AuthenticateAll(daneconfig) ==
    overRecords([daneconfig EXCEPT !.Okdane = FALSE], 1, <<>>)

-----------------------------------------------------------------------------
(* Config and the verifier callback *)

NoIP == [fam |-> "", n |-> 0]

NewConfig ==
    [DiagMode |-> FALSE, DiagError |-> NoErr,
     Server |-> [Name |-> HostName, Ipaddr |-> NoIP],
     NoVerify |-> FALSE, DaneEEname |-> FALSE, SMTPAnyMode |-> FALSE,
     Appname |-> "", Transcript |-> "",
     DANE |-> TRUE, PKIX |-> TRUE, Okdane |-> FALSE, Okpkix |-> FALSE,
     TLSA |-> NilTLSA, PeerChain |-> <<>>, VerifiedChains |-> <<>>]

\* NewConfig(hostname, ip, port)
NewConfigFor(hostname, ip) ==
    [NewConfig EXCEPT !.Server = [Name |-> hostname, Ipaddr |-> ip]]

SetTLSA(c, t) == IF ~t.isnil THEN [c EXCEPT !.TLSA = Uncheck(Copy(t))] ELSE c
NoPKIXfallback(c) == [c EXCEPT !.PKIX = FALSE]
SetDiagMode(c, value) == [c EXCEPT !.DiagMode = value]
SetAppName(c, appname) == [c EXCEPT !.Appname = appname]

\* `daneconfig.DANE && daneconfig.TLSA != nil`
DaneArmed(daneconfig) == daneconfig.DANE /\ ~daneconfig.TLSA.isnil

\* An error return of the verifier: parked in DiagError under DiagMode.
Outcome(cfg, e) == [cfg |-> cfg, err |-> e]

\* The branch for a Config on which DANE is not armed (PKIX only).
PkixOnly_NoChainCheck(c, pkerr, leaf, ServerName) ==
    LET herr == VerifyHostname(leaf, ServerName)
    IN  IF c.DiagMode THEN Outcome([c EXCEPT !.DiagError = herr], NoErr)
        ELSE Outcome(c, herr)

PkixOnly_NoNameCheck(c, pkerr, leaf, ServerName) ==
    IF ~c.Okpkix
    THEN IF c.DiagMode THEN Outcome([c EXCEPT !.DiagError = pkerr], NoErr)
         ELSE Outcome(c, pkerr)
    ELSE Outcome(c, NoErr)

PkixOnly(c, pkerr, leaf, ServerName) ==
    IF ~c.Okpkix
    THEN IF c.DiagMode THEN Outcome([c EXCEPT !.DiagError = pkerr], NoErr)
         ELSE Outcome(c, pkerr)
    ELSE LET herr == VerifyHostname(leaf, ServerName)
         IN  IF c.DiagMode THEN Outcome([c EXCEPT !.DiagError = herr], NoErr)
             ELSE Outcome(c, herr)

\* An error of the armed branch: always recorded in DiagError, returned
\* unless DiagMode.
armedFail_AlwaysReturn(c, e) == Outcome([c EXCEPT !.DiagError = e], e)

armedFail(c, e) ==
    IF c.DiagMode THEN Outcome([c EXCEPT !.DiagError = e], NoErr)
    ELSE Outcome([c EXCEPT !.DiagError = e], e)

\* The end of the armed branch, on the Config that holds AuthenticateAll's
\* result in Okdane.
DaneVerdict_PkixFallback(c) ==
    IF ~c.Okdane /\ ~c.Okpkix THEN armedFail(c, ErrDaneAuth) ELSE Outcome(c, NoErr)

DaneVerdict(c) ==
    IF ~c.Okdane THEN armedFail(c, ErrDaneAuth) ELSE Outcome(c, NoErr)

\* `daneconfig.Okdane = AuthenticateAll(daneconfig)`
setOkdane(a) == [a.cfg EXCEPT !.Okdane = a.auth]
authenticate(c) == DaneVerdict(setOkdane(AuthenticateAllVC(c, 1)))

\* PKIX failed on an armed Config: the chain is verified against its own
\* last certificate (result dn) before authentication.
daneChain(c, dn) ==
    IF dn.err # NoErr
    THEN armedFail([c EXCEPT !.VerifiedChains = dn.chains], ErrDaneChain)
    ELSE authenticate([c EXCEPT !.VerifiedChains = dn.chains])

\* The verifier after the PKIX attempt has been recorded in c.
afterPkix(c, pkerr, certs, ServerName) ==
    IF ~DaneArmed(c) THEN PkixOnly(c, pkerr, certs[1], ServerName)
    ELSE IF ~c.Okpkix THEN daneChain(c, verifyChain(certs, FALSE))
    ELSE authenticate(c)

\* PeerChain, and VerifiedChains and Okpkix from the PKIX attempt pk.
withPkix(daneconfig, certs, ServerName, pk) ==
    afterPkix([daneconfig EXCEPT !.PeerChain = certs,
                                 !.VerifiedChains = pk.chains,
                                 !.Okpkix = IF pk.err = NoErr THEN TRUE ELSE @],
              pk.err, certs, ServerName)

verifyServer_StoreFirst(rawCerts, ServerName, daneconfig) ==
    IF \E i \in 1..Len(rawCerts) : ~rawCerts[i].parseok
    THEN Outcome([daneconfig EXCEPT !.PeerChain = rawCerts], ErrParse)
    ELSE withPkix(daneconfig, rawCerts, ServerName, verifyChain(rawCerts, TRUE))

verifyServer(rawCerts, ServerName, daneconfig) ==
    IF \E i \in 1..Len(rawCerts) : ~rawCerts[i].parseok
    THEN Outcome(daneconfig, ErrParse)
    ELSE withPkix(daneconfig, rawCerts, ServerName, verifyChain(rawCerts, TRUE))

\* GetTLSconfig: ServerName from the Config; the callback is installed
\* unless NoVerify (InsecureSkipVerify disables the built-in verifier).
GetTLSconfig(daneconfig) ==
    [ServerName |-> daneconfig.Server.Name,
     VerifyPeerCertificate |-> ~daneconfig.NoVerify]

\* The TLS handshake against a server presenting rawCerts: the callback,
\* when installed, decides.  Result: the Config, the callback's return
\* value and the handshake error.
callbackResult(v) == [cfg |-> v.cfg, verr |-> v.err, err |-> v.err]

Handshake(tlsconfig, daneconfig, rawCerts) ==
    IF tlsconfig.VerifyPeerCertificate
    THEN callbackResult(verifyServer(rawCerts, tlsconfig.ServerName, daneconfig))
    ELSE [cfg |-> daneconfig, verr |-> "notcalled", err |-> NoErr]

-----------------------------------------------------------------------------
(* The STARTTLS modules (part_007).  A line is the sequence of the pieces
   its text is cut into; the server side of an exchange is a script, the
   lines (for XMPP: the chunks one Read returns) it sends, in order.  A read
   past the end of the script fails. *)

ErrEOF == "EOF"
ErrUnknownAppFor(appname) == ErrUnknownApp \o ": " \o appname

\* The text of a line.
RECURSIVE Cat(_)
Cat(line) == IF line = <<>> THEN "" ELSE Head(line) \o Cat(Tail(line))

\* strings.HasPrefix and strings.Contains, on whole pieces.
HasPrefix(line, prefix) ==
    \E k \in 0..Len(line) : Cat(SubSeq(line, 1, k)) = prefix
Contains(line, word) == \E k \in 1..Len(line) : line[k] = word

\* What is left of the pieces of old in a buffer after a shorter read of n
\* characters overwrote its beginning.
RECURSIVE leftover(_, _)
leftover(old, n) ==
    IF old = <<>> \/ n <= 0 THEN old
    ELSE leftover(Tail(old), n - Len(Head(old)))

\* The state of one exchange: tcp (getTCPconn returned a connection), the
\* rest of the script, the line last read, the XMPP read buffer, wire (what
\* was written to and read from the connection), the local transcript
\* string, daneconfig.Transcript, the error returned, panic (a run-time
\* panic ended the call), tls (TLShandshake was called).
Session(daneconfig, script) ==
    [tcp |-> FALSE, in |-> script, line |-> <<>>, buf |-> <<>>, wire |-> <<>>,
     transcript |-> "", Transcript |-> daneconfig.Transcript,
     err |-> NoErr, panic |-> FALSE, tls |-> FALSE]

getTCPconn(st, tcpok) ==
    IF tcpok THEN [st EXCEPT !.tcp = TRUE] ELSE [st EXCEPT !.err = ErrTCP]

failWith(st, e) == [st EXCEPT !.err = e]
panicked(st) == [st EXCEPT !.panic = TRUE]

\* `line, err = reader.ReadString('\n')`, TrimRight and
\* `transcript += fmt.Sprintf("recv: %s\n", line)`
recv(st) ==
    IF st.in = <<>> THEN failWith(st, ErrEOF)
    ELSE [st EXCEPT !.in = Tail(@), !.line = Head(st.in),
                    !.wire = Append(@, <<"recv", Cat(Head(st.in))>>),
                    !.transcript = @ \o "recv: " \o Cat(Head(st.in)) \o "\n"]

\* `_, err = reader.Read(buf); line = string(buf)` with c the chunk read,
\* and the transcript line: the buffer keeps the end of a longer earlier
\* read.
intoBuf(st, c) ==
    [st EXCEPT !.in = Tail(@),
               !.buf = c \o leftover(st.buf, Len(Cat(c))),
               !.line = c \o leftover(st.buf, Len(Cat(c))),
               !.wire = Append(@, <<"recv", Cat(c)>>),
               !.transcript = @ \o "recv: "
                                \o Cat(c \o leftover(st.buf, Len(Cat(c)))) \o "\n"]

recvBuf(st) ==
    IF st.in = <<>> THEN failWith(st, ErrEOF) ELSE intoBuf(st, Head(st.in))

\* `transcript += "send: ..."; writer.WriteString(...); writer.Flush()`
send(st, out) ==
    [st EXCEPT !.wire = Append(@, <<"send", out>>),
               !.transcript = @ \o "send: " \o out \o "\n"]

\* `daneconfig.Transcript = transcript; return TLShandshake(conn, tlsconfig)`
upgrade(st) == [st EXCEPT !.Transcript = st.transcript, !.tls = TRUE]

\* --- DoPOP3
pop3Reply(c) ==
    IF c.err # NoErr THEN c
    ELSE IF ~HasPrefix(c.line, "+OK") THEN failWith(c, "POP3 STARTTLS unavailable")
    ELSE upgrade(c)

pop3Greeted(a) ==
    IF a.err # NoErr THEN a ELSE pop3Reply(recv(send(a, "STLS")))

DoPOP3(c) == IF c.err # NoErr THEN c ELSE pop3Greeted(recv(c))

\* --- DoIMAP
gotCapability(line, gotSTARTTLS) ==
    gotSTARTTLS \/ (HasPrefix(line, "* CAPABILITY") /\ Contains(line, "STARTTLS"))

imapReply(c) ==
    IF c.err # NoErr THEN c
    ELSE IF ~HasPrefix(c.line, ". OK") THEN failWith(c, "STARTTLS failed to negotiate")
    ELSE upgrade(c)

imapAfterCapability(st, gotSTARTTLS) ==
    IF ~gotSTARTTLS THEN failWith(st, "IMAP STARTTLS capability unavailable")
    ELSE imapReply(recv(send(st, ". STARTTLS")))

RECURSIVE imapCapability(_, _)
imapCapabilityLine(r, gotSTARTTLS) ==
    IF r.err # NoErr THEN r
    ELSE IF HasPrefix(r.line, ". OK")
    THEN imapAfterCapability(r, gotCapability(r.line, gotSTARTTLS))
    ELSE imapCapability(r, gotCapability(r.line, gotSTARTTLS))

imapCapability(st, gotSTARTTLS) == imapCapabilityLine(recv(st), gotSTARTTLS)

imapGreeted(a) ==
    IF a.err # NoErr THEN a
    ELSE imapCapability(send(a, ". CAPABILITY"), FALSE)

DoIMAP(c) == IF c.err # NoErr THEN c ELSE imapGreeted(recv(c))

\* --- DoSMTP
\* The reply codes the scripts use; strconv.Atoi fails on any other text.
ReplyCodes == {220, 250, 454, 500, 554}
Atoi(text) ==
    IF \E n \in ReplyCodes : ToString(n) = text
    THEN [n |-> CHOOSE n \in ReplyCodes : ToString(n) = text, ok |-> TRUE]
    ELSE [n |-> 0, ok |-> FALSE]

\* parseSMTPline: `line[:3]`, `line[3]` and `line[4:]`.  A line of three or
\* more characters has a first piece of three characters, a longer one a
\* second piece of one.
parseSMTPline(line) ==
    IF Len(Cat(line)) < 3
    THEN [panic |-> TRUE, err |-> NoErr, replycode |-> 0, rest |-> <<>>,
          responseDone |-> FALSE]
    ELSE IF ~Atoi(line[1]).ok
    THEN [panic |-> FALSE, err |-> "invalid reply code: " \o Cat(line),
          replycode |-> 0, rest |-> <<>>, responseDone |-> FALSE]
    ELSE IF Len(Cat(line)) = 3
    THEN [panic |-> TRUE, err |-> NoErr, replycode |-> 0, rest |-> <<>>,
          responseDone |-> FALSE]
    ELSE [panic |-> FALSE, err |-> NoErr, replycode |-> Atoi(line[1]).n,
          rest |-> SubSeq(line, 3, Len(line)), responseDone |-> line[2] # "-"]

smtpReply(r, p) ==
    IF r.err # NoErr THEN r
    ELSE IF p.panic THEN panicked(r)
    ELSE IF p.err # NoErr THEN failWith(r, p.err)
    ELSE IF p.replycode # 220
    THEN failWith(r, "invalid reply code to STARTTLS command")
    ELSE upgrade(r)

smtpStartTLS(r) == smtpReply(r, parseSMTPline(r.line))

smtpAfterEhlo(st, gotSTARTTLS) ==
    IF ~gotSTARTTLS THEN failWith(st, "SMTP STARTTLS support not detected")
    ELSE smtpStartTLS(recv(send(st, "STARTTLS")))

RECURSIVE smtpEhlo(_, _)
smtpEhloLine(r, p, gotSTARTTLS) ==
    IF r.err # NoErr THEN r
    ELSE IF p.panic THEN panicked(r)
    ELSE IF p.err # NoErr THEN failWith(r, p.err)
    ELSE IF p.replycode # 250 THEN failWith(r, "invalid reply code in EHLO response")
    ELSE IF p.responseDone
    THEN smtpAfterEhlo(r, gotSTARTTLS \/ Contains(p.rest, "STARTTLS"))
    ELSE smtpEhlo(r, gotSTARTTLS \/ Contains(p.rest, "STARTTLS"))

smtpEhloRead(r, gotSTARTTLS) == smtpEhloLine(r, parseSMTPline(r.line), gotSTARTTLS)

smtpEhlo(st, gotSTARTTLS) == smtpEhloRead(recv(st), gotSTARTTLS)

smtpGreeted(st, replycode) ==
    IF replycode # 220
    THEN failWith(st, "invalid reply code (" \o ToString(replycode)
                      \o ") in SMTP greeting")
    ELSE smtpEhlo(send(st, "EHLO localhost"), FALSE)

RECURSIVE smtpGreeting(_)
smtpGreetingLine(r, p) ==
    IF r.err # NoErr THEN r
    ELSE IF p.panic THEN panicked(r)
    ELSE IF p.err # NoErr THEN failWith(r, p.err)
    ELSE IF p.responseDone THEN smtpGreeted(r, p.replycode)
    ELSE smtpGreeting(r)

smtpGreetingRead(r) == smtpGreetingLine(r, parseSMTPline(r.line))

smtpGreeting(st) == smtpGreetingRead(recv(st))

DoSMTP(c) == IF c.err # NoErr THEN c ELSE smtpGreeting(c)

\* --- DoXMPP
XmppHeader(rolename) ==
    "<?xml version='1.0'?><stream:stream to='" \o HostName
    \o "' version='1.0' xml:lang='en' xmlns='jabber:" \o rolename
    \o "' xmlns:stream='http://etherx.jabber.org/streams'>"
XmppStartTLS == "<starttls xmlns='urn:ietf:params:xml:ns:xmpp-tls'/>"

xmppProceed(c) ==
    IF c.err # NoErr THEN c
    ELSE IF ~Contains(c.line, "<proceed") THEN failWith(c, "XMPP STARTTLS command failed")
    ELSE upgrade(c)

xmppFeatures(a) ==
    IF a.err # NoErr THEN a
    ELSE IF ~(Contains(a.line, "<starttls")
              /\ Contains(a.line, "urn:ietf:params:xml:ns:xmpp-tls"))
    THEN failWith(a, "XMPP STARTTLS unavailable")
    ELSE xmppProceed(recvBuf(send(a, XmppStartTLS)))

DoXMPP(c, rolename) ==
    IF c.err # NoErr THEN c ELSE xmppFeatures(recvBuf(send(c, XmppHeader(rolename))))

\* --- StartTLS: the switch on daneconfig.Appname
StartTLS_DefaultSMTP(daneconfig, tcpok, script) ==
    DoSMTP(getTCPconn(Session(daneconfig, script), tcpok))

StartTLS(daneconfig, tcpok, script) ==
    IF daneconfig.Appname = "smtp"
    THEN DoSMTP(getTCPconn(Session(daneconfig, script), tcpok))
    ELSE IF daneconfig.Appname = "imap"
    THEN DoIMAP(getTCPconn(Session(daneconfig, script), tcpok))
    ELSE IF daneconfig.Appname = "pop3"
    THEN DoPOP3(getTCPconn(Session(daneconfig, script), tcpok))
    ELSE IF daneconfig.Appname = "xmpp-client"
    THEN DoXMPP(getTCPconn(Session(daneconfig, script), tcpok), "client")
    ELSE IF daneconfig.Appname = "xmpp-server"
    THEN DoXMPP(getTCPconn(Session(daneconfig, script), tcpok), "server")
    ELSE failWith(Session(daneconfig, script), ErrUnknownAppFor(daneconfig.Appname))

-----------------------------------------------------------------------------
(* DNS client *)

\* Most failed UDP attempts the network produces at the start of
\* an exchange.
MaxFails == 3

defaultDNSRetries == 3

\* Absolute names of the model; dns.Fqdn appends the root dot when missing.
FqNames == {"host.", "_443._tcp.host.", "alias.example."}
Fqdn(s) == IF s \in FqNames THEN s ELSE s \o "."

NewResolver ==
    [Retries |-> defaultDNSRetries, IPv6 |-> TRUE, IPv4 |-> TRUE,
     Pkixfallback |-> TRUE]

Msg(rcode, ad, tc, answer) ==
    [Rcode |-> rcode, AuthenticatedData |-> ad, Truncated |-> tc,
     Answer |-> answer]
NilMsg == [Rcode |-> "", AuthenticatedData |-> FALSE, Truncated |-> FALSE,
           Answer |-> <<>>]

ErrTimeout == "i/o timeout"
ErrNet == "connection refused"
ErrOther == "dns: id mismatch"
ErrNullResponse == "Error: null DNS response to query"
ErrNilDeref == "panic: nil pointer dereference"

\* One exchange with the resolver as the network plays it: the first
\* `fails` UDP attempts fail with failKind ("timeout": a net.Error with
\* Timeout(); "other": an error that is no net.Error), the next attempt
\* yields udp, and a TCP query yields tcp.  udp and tcp are
\* [err, msg] pairs; an error comes with a nil message.
Reply(m) == [err |-> NoErr, msg |-> m]
Failure(e) == [err |-> e, msg |-> NilMsg]

\* sendQueryUDP: result [response, isnil, err]; sends counts the calls of
\* c.Exchange.
RECURSIVE udpLoop(_, _, _)
udpLoop(retries, attempt, x) ==
    IF retries <= 0
    THEN \* loop left without a response: the last error, or none at all
         [isnil |-> TRUE, msg |-> NilMsg, sends |-> attempt - 1,
          err |-> IF attempt = 1 THEN NoErr
                  ELSE IF x.failKind = "timeout" THEN ErrTimeout ELSE ErrOther]
    ELSE IF attempt <= x.fails
    THEN udpLoop(retries - 1, attempt + 1, x)          \* retries--
    ELSE IF x.udp.err = NoErr
    THEN [isnil |-> FALSE, msg |-> x.udp.msg, sends |-> attempt,
          err |-> NoErr]                                \* break
    ELSE [isnil |-> TRUE, msg |-> NilMsg, sends |-> attempt,
          err |-> x.udp.err]                            \* not a timeout: break

sendQueryUDP_OneMore(resolver0, x) == udpLoop(resolver0.Retries + 1, 1, x)

sendQueryUDP(resolver0, x) == udpLoop(resolver0.Retries, 1, x)

sendQueryTCP(resolver0, x) ==
    [isnil |-> x.tcp.err # NoErr, msg |-> x.tcp.msg, err |-> x.tcp.err]

\* sendQuery: result [panic, isnil, msg, err]; panic is the nil dereference
\* of response.MsgHdr when sendQueryUDP returns (nil, nil).  udpSends and
\* tcpSends count the queries that went out over each transport.
queryResult(r, udpSends, tcpSends) ==
    IF r.err # NoErr
    THEN [panic |-> FALSE, isnil |-> TRUE, msg |-> NilMsg, err |-> r.err,
          udpSends |-> udpSends, tcpSends |-> tcpSends]
    ELSE IF r.isnil
    THEN [panic |-> FALSE, isnil |-> TRUE, msg |-> NilMsg,
          err |-> ErrNullResponse,
          udpSends |-> udpSends, tcpSends |-> tcpSends]
    ELSE [panic |-> FALSE, isnil |-> FALSE, msg |-> r.msg, err |-> NoErr,
          udpSends |-> udpSends, tcpSends |-> tcpSends]

afterUDP_NoTCP(resolver0, x, u) ==
    IF u.err = NoErr /\ u.isnil
    THEN [panic |-> TRUE, isnil |-> TRUE, msg |-> NilMsg, err |-> ErrNilDeref,
          udpSends |-> u.sends, tcpSends |-> 0]
    ELSE queryResult(u, u.sends, 0)

afterUDP(resolver0, x, u) ==
    IF u.err = NoErr /\ u.isnil
    THEN [panic |-> TRUE, isnil |-> TRUE, msg |-> NilMsg, err |-> ErrNilDeref,
          udpSends |-> u.sends, tcpSends |-> 0]
    ELSE IF u.err = NoErr /\ u.msg.Truncated
    THEN queryResult(sendQueryTCP(resolver0, x), u.sends, 1)
    ELSE queryResult(u, u.sends, 0)

sendQuery(resolver0, x) == afterUDP(resolver0, x, sendQueryUDP(resolver0, x))

responseOK_NoErrorOnly(response) == response.Rcode = "NOERROR"

responseOK(response) == response.Rcode \in {"NOERROR", "NXDOMAIN"}

\* `response.MsgHdr.AuthenticatedData`
ADflag_Ignored(response) == TRUE

ADflag(response) == response.AuthenticatedData

ErrUnauthTLSA == "ERROR: TLSA response was unauthenticated"
ErrNoTLSA == "ERROR: No TLSA records found"
ErrNXDomain == "Non-existent domain name"
ErrRcode(response) == "TLSA response rcode: " \o response.Rcode

\* The TLSA records among the answers, and the owner names that differ
\* from the query name.
RECURSIVE tlsaRdata(_, _)
tlsaRdata(answer, i) ==
    IF i > Len(answer) THEN <<>>
    ELSE (IF answer[i].Rrtype = "TLSA"
          THEN <<TLSArdata(answer[i].Usage, answer[i].Selector,
                           answer[i].MatchingType, answer[i].Certificate)>>
          ELSE <<>>) \o tlsaRdata(answer, i + 1)

RECURSIVE tlsaAlias(_, _, _)
tlsaAlias(answer, i, qname) ==
    IF i > Len(answer) THEN <<>>
    ELSE (IF answer[i].Rrtype = "TLSA" /\ answer[i].Name # qname
          THEN <<answer[i].Name>> ELSE <<>>) \o tlsaAlias(answer, i + 1, qname)

\* GetTLSA on the result q of sendQuery for qname: result [tlsa, err,
\* panic] and, for the record, the response it read.
tlsaResult(q, t, e) ==
    [tlsa |-> t, err |-> e, panic |-> q.panic, isnil |-> q.isnil,
     response |-> q.msg]

tlsaFromResponse(resolver0, qname, q) ==
    IF q.err # NoErr THEN tlsaResult(q, NilTLSA, q.err)
    ELSE IF ~responseOK(q.msg) THEN tlsaResult(q, NilTLSA, ErrRcode(q.msg))
    ELSE IF ~ADflag(q.msg)
    THEN IF resolver0.Pkixfallback THEN tlsaResult(q, NilTLSA, NoErr)
         ELSE tlsaResult(q, NilTLSA, ErrUnauthTLSA)
    ELSE IF q.msg.Rcode = "NXDOMAIN" THEN tlsaResult(q, NilTLSA, ErrNXDomain)
    ELSE IF Len(q.msg.Answer) = 0
    THEN IF resolver0.Pkixfallback THEN tlsaResult(q, NilTLSA, NoErr)
         ELSE tlsaResult(q, NilTLSA, ErrNoTLSA)
    ELSE tlsaResult(q, TLSAinfo(Fqdn(qname),
                                tlsaAlias(q.msg.Answer, 1, Fqdn(qname)),
                                tlsaRdata(q.msg.Answer, 1)), NoErr)

\* GetTLSA for _443._tcp.<hostname> over exchange x.
GetTLSA(resolver0, hostname, x) ==
    tlsaFromResponse(resolver0, "_443._tcp." \o hostname, sendQuery(resolver0, x))

ErrAddrUnauth == "Address response was not authenticated"
ErrAddrRcode(response) == "Address lookup response rcode: " \o response.Rcode

\* A net.IP; To4 is non-nil exactly for an IPv4 address.
IP(fam, n) == [fam |-> fam, n |-> n]
To4(ip) == ip.fam = "v4"

RR_Addr(name, rrtype, ip) == [Name |-> name, Rrtype |-> rrtype, Addr |-> ip]

\* n addresses of one family.
AddrAnswerIPs(fam, n) == [i \in 1..n |-> IP(fam, i)]

\* The answer section with n address records of the host.
AddrAnswer(rrtype, fam, n) == [i \in 1..n |-> RR_Addr("host.", rrtype, IP(fam, i))]

RECURSIVE addrsOf(_, _, _)
addrsOf(answer, i, rrtype) ==
    IF i > Len(answer) THEN <<>>
    ELSE (IF answer[i].Rrtype = rrtype THEN <<answer[i].Addr>> ELSE <<>>)
         \o addrsOf(answer, i + 1, rrtype)

\* `secure && !response.MsgHdr.AuthenticatedData`
needAD_Never(secure, response) == FALSE

needAD(secure, response) == secure /\ ~response.AuthenticatedData

\* One iteration of GetAddresses' loop over rrTypes, on the result q of
\* sendQuery.
addrFail(q, e) == [ipList |-> <<>>, err |-> e, panic |-> q.panic]

addrFromResponse_Prepend(secure, rrtype, q, ipList) ==
    IF q.err # NoErr THEN addrFail(q, q.err)
    ELSE IF ~responseOK(q.msg) THEN addrFail(q, ErrAddrRcode(q.msg))
    ELSE IF q.msg.Rcode = "NXDOMAIN" THEN addrFail(q, ErrNXDomain)
    ELSE IF needAD(secure, q.msg) THEN addrFail(q, ErrAddrUnauth)
    ELSE [ipList |-> addrsOf(q.msg.Answer, 1, rrtype) \o ipList,
          err |-> NoErr, panic |-> FALSE]

addrFromResponse(secure, rrtype, q, ipList) ==
    IF q.err # NoErr THEN addrFail(q, q.err)
    ELSE IF ~responseOK(q.msg) THEN addrFail(q, ErrAddrRcode(q.msg))
    ELSE IF q.msg.Rcode = "NXDOMAIN" THEN addrFail(q, ErrNXDomain)
    ELSE IF needAD(secure, q.msg) THEN addrFail(q, ErrAddrUnauth)
    ELSE [ipList |-> ipList \o addrsOf(q.msg.Answer, 1, rrtype),
          err |-> NoErr, panic |-> FALSE]

addrQuery(resolver0, secure, rrtype, x, ipList) ==
    addrFromResponse(secure, rrtype, sendQuery(resolver0, x), ipList)

\* GetAddresses: AAAA first, then A, each if the resolver enables it.
thenA(resolver0, secure, x4, r6) ==
    IF r6.err # NoErr THEN r6
    ELSE IF resolver0.IPv4
    THEN addrQuery(resolver0, secure, "A", x4, r6.ipList)
    ELSE r6

GetAddresses(resolver0, hostname, secure, x6, x4) ==
    thenA(resolver0, secure, x4,
          IF resolver0.IPv6
          THEN addrQuery(resolver0, secure, "AAAA", x6, <<>>)
          ELSE [ipList |-> <<>>, err |-> NoErr, panic |-> FALSE])

-----------------------------------------------------------------------------
(* Idle values of each specification's variables *)

VerifyIdle ==
    /\ config = NewConfig /\ tlsaSrc = NilTLSA /\ vpc = "idle" /\ via = "none"
    /\ peer = <<>> /\ verr = "notcalled" /\ dconn = "nil" /\ derr = NoErr

MatchIdle ==
    /\ mchain = <<>> /\ mtr = TLSArdata(0, 0, 0, EmptyHex) /\ mokpkix = FALSE
    /\ mres = [auth |-> FALSE, tr |-> TLSArdata(0, 0, 0, EmptyHex)]
    /\ mpc = "idle"

DnsIdle ==
    /\ resolver = NewResolver /\ exchange = <<>> /\ tlsaRes = <<>> /\ dpc = "idle"
    /\ addrCall = <<>> /\ addrRes = <<>>

\* A nil *tls.Conn, and the connection a dial to ip established.
NilConn == [isnil |-> TRUE, ip |-> NoIP]
Conn(ip) == [isnil |-> FALSE, ip |-> ip]

\* The (conn, config, err) a ConnectByName* call returns; config is nil
\* when hasConfig is FALSE.
Return(c, hasConfig, cfg, e) ==
    [conn |-> c, hasConfig |-> hasConfig, config |-> cfg, err |-> e]
NoReturn == Return(NilConn, FALSE, NewConfig, NoErr)

ByNameIdle ==
    /\ entry = <<>> /\ mainPc = "idle" /\ tlsa = NilTLSA /\ iplist = <<>>
    /\ lookups = <<>> /\ tasks = <<>> /\ launcher = <<>> /\ conn = NilConn
    /\ err = NoErr /\ tokens = 0 /\ results = "open" /\ done = FALSE /\ wg = 0
    /\ ret = NoReturn /\ dialed = {} /\ dialedOk = {} /\ age = <<>>

AuthIdle ==
    /\ acfg = NewConfig /\ achain = <<>> /\ aidx = 0 /\ ares = FALSE
    /\ apc = "idle"

CopyIdle == heap = <<>> /\ infos = <<>> /\ tlsaOf = <<>>

StartIdle == sconfig = NewConfig /\ session = <<>> /\ sdials = 0

CallIdle == fcall = <<>> /\ fres = <<>>

-----------------------------------------------------------------------------
(* SpecVerify: a Config from NewConfig, the caller's settings, one dial *)

TLSAQname == "_443._tcp.host."

\* The TLSA records a zone may publish for the host.
RdataList ==
    << TLSArdata(PkixTA, 1, 1, ComputeTLSA(1, 1, IntCA).hash),
       TLSArdata(PkixTA, 1, 1, ComputeTLSA(1, 1, Leaf).hash),
       TLSArdata(PkixTA, 1, 1, BogusHex),
       TLSArdata(PkixEE, 1, 1, ComputeTLSA(1, 1, Leaf).hash),
       TLSArdata(PkixEE, 1, 1, ComputeTLSA(1, 1, IntCA).hash),
       TLSArdata(PkixEE, 1, 1, BogusHex),
       TLSArdata(DaneTA, 1, 1, ComputeTLSA(1, 1, IntCA).hash),
       TLSArdata(DaneTA, 0, 2, ComputeTLSA(0, 2, PrivRoot).hash),
       TLSArdata(DaneTA, 1, 1, ComputeTLSA(1, 1, Leaf).hash),
       TLSArdata(DaneTA, 1, 1, BogusHex),
       TLSArdata(DaneEE, 1, 1, ComputeTLSA(1, 1, Leaf).hash),
       TLSArdata(DaneEE, 0, 0, ComputeTLSA(0, 0, PrivLeaf).hash),
       TLSArdata(DaneEE, 1, 1, ComputeTLSA(1, 1, LeafOther).hash),
       TLSArdata(DaneEE, 1, 1, BogusHex),
       TLSArdata(DaneEE, 2, 1, BogusHex),
       TLSArdata(4, 1, 1, ComputeTLSA(1, 1, Leaf).hash) >>

\* RRsets of one to MaxRdata distinct records, in the order of RdataList.
RdataSets ==
    { [i \in 1..Len(ix) |-> RdataList[ix[i]]] :
        ix \in { s \in UNION {[1..n -> 1..Len(RdataList)] : n \in 1..MaxRdata} :
                    \A i \in 1..(Len(s) - 1) : s[i] < s[i + 1] } }

TLSAsets == {NilTLSA} \cup {TLSAinfo(TLSAQname, <<>>, rd) : rd \in RdataSets}

AppNames == {"", "smtp"}
STARTTLSApps == {"smtp", "imap", "pop3", "xmpp-client", "xmpp-server"}

VerifyInit ==
    /\ config = NewConfig
    /\ tlsaSrc \in TLSAsets
    /\ vpc = "config" /\ via = "none" /\ peer = <<>>
    /\ verr = "notcalled" /\ dconn = "nil" /\ derr = NoErr
    /\ MatchIdle /\ DnsIdle /\ ByNameIdle /\ AuthIdle /\ CopyIdle
    /\ StartIdle /\ CallIdle

VerifyRest ==
    UNCHANGED <<tlsaSrc, matchVars, dnsVars, byNameVars, authVars, copyVars,
               startVars, callVars>>
Configure(c) ==
    /\ vpc = "config"
    /\ config' = c
    /\ UNCHANGED <<vpc, via, peer, verr, dconn, derr>>
    /\ VerifyRest

CallSetTLSA ==
    /\ vpc = "config"
    /\ Configure(SetTLSA(config, tlsaSrc))
CallNoPKIXfallback ==
    /\ vpc = "config"
    /\ Configure(NoPKIXfallback(config))
CallSetDiagMode ==
    /\ vpc = "config"
    /\ \E b \in BOOLEAN : Configure(SetDiagMode(config, b))
CallSetAppName ==
    /\ vpc = "config"
    /\ \E a \in AppNames : Configure(SetAppName(config, a))
\* The exported fields the caller assigns directly.
SetDANE ==
    /\ vpc = "config"
    /\ \E b \in BOOLEAN : Configure([config EXCEPT !.DANE = b])
SetDaneEEname ==
    /\ vpc = "config"
    /\ \E b \in BOOLEAN : Configure([config EXCEPT !.DaneEEname = b])
SetSMTPAnyMode ==
    /\ vpc = "config"
    /\ \E b \in BOOLEAN : Configure([config EXCEPT !.SMTPAnyMode = b])
SetNoVerify ==
    /\ vpc = "config"
    /\ \E b \in BOOLEAN : Configure([config EXCEPT !.NoVerify = b])

\* DialTLS: tls.DialWithDialer; a failed TCP connect or handshake yields a
\* nil connection.
dialResult(h) ==
    [cfg |-> h.cfg, verr |-> h.verr,
     conn |-> IF h.err = NoErr THEN "conn" ELSE "nil", err |-> h.err]

DialTLS(daneconfig, tcpok, rawCerts) ==
    IF ~tcpok
    THEN [cfg |-> daneconfig, verr |-> "notcalled", conn |-> "nil", err |-> ErrTCP]
    ELSE dialResult(Handshake(GetTLSconfig(daneconfig), daneconfig, rawCerts))

\* DialStartTLS: StartTLS dispatches on Appname; the protocol exchange
\* (net: "tcpfail" | "refused" | "proceed") precedes TLShandshake, which
\* returns its tls.Conn together with the handshake error.
startTLSResult(h) == [cfg |-> h.cfg, verr |-> h.verr, conn |-> "conn", err |-> h.err]

withTranscript(c, rawCerts) == startTLSResult(Handshake(GetTLSconfig(c), c, rawCerts))

DialStartTLS(daneconfig, net, rawCerts) ==
    IF daneconfig.Appname \notin STARTTLSApps
    THEN [cfg |-> daneconfig, verr |-> "notcalled", conn |-> "nil",
          err |-> ErrUnknownApp]
    ELSE IF net = "tcpfail"
    THEN [cfg |-> daneconfig, verr |-> "notcalled", conn |-> "nil", err |-> ErrTCP]
    ELSE IF net = "refused"
    THEN [cfg |-> daneconfig, verr |-> "notcalled", conn |-> "nil",
          err |-> ErrSTARTTLS]
    ELSE withTranscript([daneconfig EXCEPT !.Transcript = "transcript"], rawCerts)

Dialed(fn, r, rawCerts) ==
    /\ vpc = "config"
    /\ vpc' = "done" /\ via' = fn
    /\ config' = r.cfg /\ verr' = r.verr /\ dconn' = r.conn /\ derr' = r.err
    /\ peer' = IF r.verr = "notcalled" THEN <<>> ELSE rawCerts
    /\ VerifyRest

CallDialTLS ==
    /\ vpc = "config"
    /\ \E tcpok \in BOOLEAN, rawCerts \in PeerChains :
        Dialed("DialTLS", DialTLS(config, tcpok, rawCerts), rawCerts)

CallDialStartTLS ==
    /\ vpc = "config"
    /\ \E net \in {"tcpfail", "refused", "proceed"}, rawCerts \in PeerChains :
        Dialed("DialStartTLS", DialStartTLS(config, net, rawCerts), rawCerts)

VerifyNext ==
    \/ CallSetTLSA \/ CallNoPKIXfallback \/ CallSetDiagMode \/ CallSetAppName
    \/ SetDANE \/ SetDaneEEname \/ SetSMTPAnyMode \/ SetNoVerify
    \/ CallDialTLS \/ CallDialStartTLS

SpecVerify == VerifyInit /\ [][VerifyNext]_vars

Succeeded == vpc = "done" /\ derr = NoErr /\ dconn = "conn"

\* The chain passes PKIX validation against the system roots.
PkixValid(rawCerts) ==
    /\ \A i \in 1..Len(rawCerts) : rawCerts[i].parseok
    /\ BuildChains(<<rawCerts[1]>>, SeqToSet(Tail1(rawCerts)), SystemRoots) # {}

\* No record's data is the association data of any certificate the server
\* sent or of a trusted root.
NoRecordMatches(rawCerts, t) ==
    \A i \in 1..Len(t.Rdata) : \A c \in SeqToSet(rawCerts) \cup SystemRoots :
        LET h == ComputeTLSA(t.Rdata[i].Selector, t.Rdata[i].Mtype, c)
        IN  h.err # NoErr \/ h.hash # t.Rdata[i].Data

\* C1: with DANE armed and DiagMode off the verifier succeeds exactly when
\* Okdane is true, and a PKIX-valid chain with the right name that matches
\* no TLSA record is rejected with the DANE authentication error.
C1_ArmedVerdictIsOkdane ==
    (vpc = "done" /\ verr # "notcalled" /\ config.DANE /\ ~config.TLSA.isnil
        /\ ~config.DiagMode)
    => /\ (verr = NoErr) <=> config.Okdane
       /\ (PkixValid(peer) /\ HostName \in peer[1].names
              /\ NoRecordMatches(peer, config.TLSA))
          => verr = ErrDaneAuth

C1_Witness ==
    /\ vpc = "done" /\ config.DANE /\ ~config.TLSA.isnil /\ ~config.DiagMode
    /\ verr # "notcalled"
    /\ PkixValid(peer) /\ HostName \in peer[1].names
    /\ NoRecordMatches(peer, config.TLSA)
    /\ config.Okpkix /\ ~config.Okdane /\ verr = ErrDaneAuth /\ dconn = "nil"

\* C2: after NoPKIXfallback a dial returns a connection without error only
\* if DANE authentication succeeded.
C2_NoPKIXfallbackNeedsOkdane ==
    (Succeeded /\ ~config.PKIX /\ ~config.NoVerify /\ ~config.DiagMode)
    => config.Okdane

\* C3 as stated: on a successful dial (NoVerify unset) one of Okdane, Okpkix
\* is true and VerifiedChains is non-empty, unless DiagMode is set, in which
\* case DiagError is non-nil.
C3_OkOrDiagErrorAsStated ==
    (Succeeded /\ ~config.NoVerify)
    => IF config.DiagMode
       THEN config.DiagError # NoErr
       ELSE (config.Okdane \/ config.Okpkix) /\ config.VerifiedChains # <<>>

\* C3 amended: on a successful dial (NoVerify unset) either one of Okdane,
\* Okpkix is true and VerifiedChains is non-empty, or DiagMode is set and
\* DiagError is non-nil.
C3_OkOrDiagError ==
    (Succeeded /\ ~config.NoVerify)
    => \/ (config.Okdane \/ config.Okpkix) /\ config.VerifiedChains # <<>>
       \/ config.DiagMode /\ config.DiagError # NoErr

C3_Witness ==
    /\ Succeeded /\ ~config.NoVerify /\ verr = NoErr
    /\ config.DiagMode /\ config.DiagError = ErrDaneChain
    /\ ~config.Okdane /\ ~config.Okpkix /\ config.VerifiedChains = <<>>

\* C12: with DANE not armed (DANE false or TLSA nil) and DiagMode off the
\* verifier succeeds exactly when the PKIX chain build against the system
\* roots succeeded and the leaf is valid for the TLS ServerName; on success
\* Okpkix is true and Okdane is false.
C12_PkixOnlyVerdict ==
    (vpc = "done" /\ verr # "notcalled" /\ ~(config.DANE /\ ~config.TLSA.isnil)
        /\ ~config.DiagMode)
    => /\ (verr = NoErr)
          <=> (PkixValid(peer) /\ GetTLSconfig(config).ServerName \in peer[1].names)
       /\ verr = NoErr => (config.Okpkix /\ ~config.Okdane)

C12_Witness ==
    /\ vpc = "done" /\ via = "DialTLS" /\ config.DANE /\ config.TLSA.isnil
    /\ ~config.DiagMode /\ peer = <<Leaf, IntCA, RootCA>>
    /\ verr = NoErr /\ dconn = "conn" /\ config.Okpkix /\ ~config.Okdane

Parsed(rawCerts) == \A i \in 1..Len(rawCerts) : rawCerts[i].parseok

\* The failure of the verifier on the parsed chain rawCerts, given the
\* verdict c.Okdane of the authentication; NoErr when there is none.
VerifierFailure(rawCerts, c) ==
    IF ~(c.DANE /\ ~c.TLSA.isnil)
    THEN IF ~PkixValid(rawCerts) THEN ErrX509
         ELSE IF c.Server.Name \notin rawCerts[1].names THEN ErrHostname
         ELSE NoErr
    ELSE IF ~PkixValid(rawCerts) /\ verifyChain(rawCerts, FALSE).err # NoErr
    THEN ErrDaneChain
    ELSE IF ~c.Okdane THEN ErrDaneAuth
    ELSE NoErr

\* C20 as stated: with DiagMode set every failure of the verifier, a
\* certificate parse failure included, is stored in DiagError and the
\* callback returns success, so that the dial returns a connection and no
\* error.
C20_DiagModeParksEveryFailureAsStated ==
    (vpc = "done" /\ verr # "notcalled" /\ config.DiagMode)
    => /\ verr = NoErr /\ derr = NoErr /\ dconn = "conn"
       /\ ~Parsed(peer) => config.DiagError # NoErr
       /\ Parsed(peer) => config.DiagError = VerifierFailure(peer, config)

\* C20 amended: with DiagMode set every failure of the verifier on a chain
\* it could parse (PKIX chain failure, hostname mismatch, DANE chain build
\* failure, DANE authentication failure) is stored in DiagError and the
\* callback returns success, so that the dial returns a connection and no
\* error; a certificate parse failure is returned as the handshake error
\* and leaves DiagError nil.
C20_DiagModeParksFailures ==
    (vpc = "done" /\ verr # "notcalled" /\ config.DiagMode)
    => IF Parsed(peer)
       THEN /\ verr = NoErr /\ derr = NoErr /\ dconn = "conn"
            /\ config.DiagError = VerifierFailure(peer, config)
       ELSE verr = ErrParse /\ derr = ErrParse /\ config.DiagError = NoErr

C20_Witness ==
    /\ vpc = "done" /\ via = "DialTLS" /\ config.DiagMode
    /\ verr = NoErr /\ config.DANE /\ ~config.TLSA.isnil
    /\ config.Okpkix /\ ~config.Okdane
    /\ config.DiagError = ErrDaneAuth
    /\ derr = NoErr /\ dconn = "conn"

\* AuthenticateAll has run over the Config's records: SetTLSA installs
\* them unchecked and every probe of a record sets Checked.
AuthenticationRan(c) == \E i \in 1..Len(c.TLSA.Rdata) : c.TLSA.Rdata[i].Checked

\* C36: the verifier parses every certificate before it writes anything,
\* then stores PeerChain and the PKIX build's result, makes the DANE build
\* only on an armed Config whose PKIX build failed, and runs
\* AuthenticateAll last: never on a Config that is not armed, never after
\* a failed DANE build; after a parse failure no Config field is written.
C36_VerifierStepOrder ==
    (vpc = "done" /\ verr # "notcalled")
    => IF ~Parsed(peer)
       THEN /\ verr = ErrParse
            /\ config.PeerChain = <<>> /\ config.VerifiedChains = <<>>
            /\ ~config.Okpkix /\ ~config.Okdane /\ config.DiagError = NoErr
            /\ ~AuthenticationRan(config)
       ELSE /\ config.PeerChain = peer
            /\ config.Okpkix = (verifyChain(peer, TRUE).err = NoErr)
            /\ config.VerifiedChains =
                 IF DaneArmed(config) /\ ~config.Okpkix
                 THEN verifyChain(peer, FALSE).chains
                 ELSE verifyChain(peer, TRUE).chains
            /\ AuthenticationRan(config)
               <=> /\ DaneArmed(config)
                   /\ config.Okpkix \/ verifyChain(peer, FALSE).err = NoErr
            /\ ~AuthenticationRan(config) => ~config.Okdane
            /\ (DaneArmed(config) /\ ~config.Okpkix
                   /\ verifyChain(peer, FALSE).err # NoErr)
               => config.DiagError = ErrDaneChain

C36_Witness ==
    /\ vpc = "done" /\ verr = NoErr /\ DaneArmed(config)
    /\ peer = <<PrivLeaf, PrivRoot>> /\ config.PeerChain = peer
    /\ ~config.Okpkix /\ config.VerifiedChains = <<peer>>
    /\ AuthenticationRan(config) /\ config.Okdane

-----------------------------------------------------------------------------
(* SpecMatch: ChainMatchesTLSA on one verified chain and one record *)

\* A root certificate that carries the key of the intermediate CA: a TA
\* record for that key matches at two depths of the chain.
SameKeyRoot == Cert(8, 12, "R", "R", {})

MatchChains ==
    { <<Leaf, IntCA, RootCA>>, <<LeafOther, IntCA, RootCA>>, <<Leaf, IntCA>>,
      <<PrivLeaf, PrivRoot>>, <<Leaf>>, <<Leaf, IntCA, SameKeyRoot>> }

\* A record as a previous chain's probe may have left it.
Probed(tr, b) ==
    [tr EXCEPT !.Checked = b, !.Ok = b,
               !.Message = IF b THEN "matched EE certificate" ELSE ""]

MatchInit ==
    /\ mchain \in MatchChains
    /\ mtr \in {Probed(RdataList[i], b) : i \in 1..Len(RdataList), b \in BOOLEAN}
    /\ mokpkix \in BOOLEAN
    /\ mres = [auth |-> FALSE, tr |-> mtr]
    /\ mpc = "init"
    /\ VerifyIdle /\ DnsIdle /\ ByNameIdle /\ AuthIdle /\ CopyIdle
    /\ StartIdle /\ CallIdle

CallChainMatchesTLSA ==
    /\ mpc = "init"
    /\ mres' = ChainMatchesTLSA(mchain, mtr, [Okpkix |-> mokpkix])
    /\ mpc' = "done"
    /\ UNCHANGED <<mchain, mtr, mokpkix, verifyVars, dnsVars, byNameVars,
                   authVars, copyVars,
               startVars, callVars>>

MatchNext == CallChainMatchesTLSA

SpecMatch == MatchInit /\ [][MatchNext]_vars

\* The record's data equals the association data of the certificate(s) its
\* usage is compared with: the leaf for EE usages, chain[1:] for TA usages.
HashMatches(chain, tr) ==
    LET Eq(c) == ComputeTLSA(tr.Selector, tr.Mtype, c) =
                     [hash |-> tr.Data, err |-> NoErr]
    IN  IF tr.Usage \in {PkixEE, DaneEE} THEN Eq(chain[1])
        ELSE IF tr.Usage \in {PkixTA, DaneTA}
        THEN \E i \in 2..Len(chain) : Eq(chain[i])
        ELSE FALSE

PkixFailedMessages(chain) ==
    {"matched EE certificate but PKIX failed"} \cup
    {"matched TA certificate at depth " \o ToString(d) \o " but PKIX failed" :
        d \in 1..Len(chain)}

\* C4: a PkixTA/PkixEE record authenticates only if Okpkix; when its hash
\* matches and Okpkix is false the result is false, Ok=false and a
\* "... but PKIX failed" message; a DaneTA/DaneEE record authenticates on a
\* hash match whatever Okpkix is.
C4_PkixUsagesNeedOkpkix ==
    mpc = "done"
    => /\ (mtr.Usage \in {PkixTA, PkixEE} /\ mres.auth) => mokpkix
       /\ (mtr.Usage \in {PkixTA, PkixEE} /\ HashMatches(mchain, mtr) /\ ~mokpkix)
          => (~mres.auth /\ ~mres.tr.Ok
                /\ mres.tr.Message \in PkixFailedMessages(mchain))
       /\ (mtr.Usage \in {DaneTA, DaneEE} /\ HashMatches(mchain, mtr))
          => (mres.auth /\ mres.tr.Ok)

C4_Witness ==
    /\ mpc = "done" /\ mtr.Usage = PkixTA /\ mtr.Ok /\ ~mokpkix
    /\ HashMatches(mchain, mtr) /\ ~mres.auth /\ ~mres.tr.Ok
    /\ mres.tr.Message = "matched TA certificate at depth 1 but PKIX failed"

\* The depths (1 for chain[1], the certificate after the leaf) at which
\* the record's data is the association data of the certificate.
TADepths(chain, tr) ==
    {d \in 1..(Len(chain) - 1) :
        ComputeTLSA(tr.Selector, tr.Mtype, chain[d + 1])
            = [hash |-> tr.Data, err |-> NoErr]}
MaxOf(S) == CHOOSE m \in S : \A x \in S : x <= m

\* C37: a PkixTA or DaneTA record is compared with chain[1..] only, never
\* with the leaf; every such certificate is examined, so that the message
\* names the deepest matching depth; when no depth matches, also on a
\* chain of one certificate, the record ends Ok=false with
\* 'did not match any TA certificate'.
C37_TAMatchesDeepestDepth ==
    (mpc = "done" /\ mtr.Usage \in {PkixTA, DaneTA})
    => IF TADepths(mchain, mtr) = {}
       THEN /\ ~mres.auth /\ mres.tr.Checked /\ ~mres.tr.Ok
            /\ mres.tr.Message = "did not match any TA certificate"
       ELSE /\ mres.auth = (mtr.Usage = DaneTA \/ mokpkix)
            /\ mres.tr.Ok = mres.auth
            /\ mres.tr.Message =
                 "matched TA certificate at depth "
                    \o ToString(MaxOf(TADepths(mchain, mtr)))
                    \o (IF mres.auth THEN "" ELSE " but PKIX failed")

C37_Witness ==
    /\ mpc = "done" /\ mtr.Usage = DaneTA
    /\ mchain = <<Leaf, IntCA, SameKeyRoot>>
    /\ TADepths(mchain, mtr) = {1, 2}
    /\ mres.auth /\ mres.tr.Ok
    /\ mres.tr.Message = "matched TA certificate at depth 2"

-----------------------------------------------------------------------------
(* SpecAuth: one call of AuthenticateSingle or AuthenticateAll (tlsa.go) on
   a Config whose TLSA records were installed by SetTLSA *)

AuthPeers == {certs \in PeerChains : \A i \in 1..Len(certs) : certs[i].parseok}

\* The Config at the point where the verifier authenticates the peer chain
\* certs: PKIXChains from the build against the system roots, DANEChains
\* from the build anchored at the chain's own last certificate.
AuthConfig(rd, app, any, een, certs) ==
    [(SetTLSA(NewConfig, TLSAinfo(TLSAQname, <<>>, rd))
        @@ [PKIXChains |-> verifyChain(certs, TRUE).chains,
            DANEChains |-> verifyChain(certs, FALSE).chains])
     EXCEPT !.Appname = app, !.SMTPAnyMode = any, !.DaneEEname = een,
            !.PeerChain = certs,
            !.Okpkix = (verifyChain(certs, TRUE).err = NoErr)]

\* A server that sends two certificates of its intermediate CA (the same
\* name and key, re-issued by the root): Verify finds a chain through each.
IntCAx == Cert(7, 12, "I", "R", {})
CrossPeer == <<Leaf, IntCA, IntCAx, RootCA>>

\* Records that pin one of the two intermediate certificates, or their
\* common key.
CrossList ==
    << TLSArdata(DaneTA, 0, 1, ComputeTLSA(0, 1, IntCA).hash),
       TLSArdata(DaneTA, 0, 1, ComputeTLSA(0, 1, IntCAx).hash),
       TLSArdata(PkixTA, 0, 1, ComputeTLSA(0, 1, IntCA).hash),
       TLSArdata(PkixTA, 0, 1, ComputeTLSA(0, 1, IntCAx).hash),
       TLSArdata(DaneTA, 1, 1, ComputeTLSA(1, 1, IntCA).hash),
       TLSArdata(DaneEE, 1, 1, BogusHex) >>
CrossRdataSets ==
    {<<CrossList[i]>> : i \in 1..Len(CrossList)}
    \cup {<<CrossList[i], CrossList[j]>> :
             i \in 1..Len(CrossList), j \in 1..Len(CrossList)}

\* Okdane may be left over from an earlier handshake with the Config.
AuthInit ==
    /\ acfg \in {[AuthConfig(rd, app, any, een, certs) EXCEPT !.Okdane = b] :
                    rd \in RdataSets, app \in AppNames, any \in BOOLEAN,
                    een \in BOOLEAN, certs \in AuthPeers, b \in BOOLEAN}
               \cup
               {[AuthConfig(rd, app, FALSE, een, CrossPeer) EXCEPT !.Okdane = b] :
                    rd \in CrossRdataSets, app \in AppNames,
                    een \in BOOLEAN, b \in BOOLEAN}
    /\ achain = <<>> /\ aidx = 0 /\ ares = FALSE /\ apc = "init"
    /\ VerifyIdle /\ MatchIdle /\ DnsIdle /\ ByNameIdle /\ CopyIdle
    /\ StartIdle /\ CallIdle

AuthRest == UNCHANGED <<verifyVars, matchVars, dnsVars, byNameVars, copyVars,
               startVars, callVars>>

\* The call wrote its result a.tr through the record pointer.
singleDone(i, chain, a) ==
    /\ acfg' = [acfg EXCEPT !.TLSA.Rdata[i] = a.tr]
    /\ achain' = chain /\ aidx' = i /\ ares' = a.auth /\ apc' = "single"

CallAuthenticateSingle ==
    /\ apc = "init"
    /\ \E i \in 1..Len(acfg.TLSA.Rdata), chain \in MatchChains :
        singleDone(i, chain, AuthenticateSingle(chain, acfg.TLSA.Rdata[i], acfg))
    /\ AuthRest

CallAuthenticateAll ==
    /\ apc = "init"
    /\ acfg' = AuthenticateAll(acfg)
    /\ apc' = "all"
    /\ UNCHANGED <<achain, aidx, ares>>
    /\ AuthRest

AuthNext == CallAuthenticateSingle \/ CallAuthenticateAll

SpecAuth == AuthInit /\ [][AuthNext]_vars

\* The record AuthenticateSingle was called with, as the call left it.
ATr == acfg.TLSA.Rdata[aidx]

\* The record passes ChainMatchesTLSA on the chain: its data is the
\* association data of the certificate its usage looks at, and a PKIX usage
\* has PKIX success behind it.
Matches(chain, tr, c) ==
    HashMatches(chain, tr) /\ (tr.Usage \in {DaneTA, DaneEE} \/ c.Okpkix)

NameOK(chain, c) == c.Server.Name \in chain[1].names

\* The record is one that SMTP ignores.
SmtpFiltered(tr, c) ==
    c.Appname = "smtp" /\ ~c.SMTPAnyMode /\ tr.Usage \notin {DaneTA, DaneEE}

MatchedMessages(chain) ==
    {"matched EE certificate"} \cup
    {"matched TA certificate at depth " \o ToString(d) : d \in 1..Len(chain)}

\* C13: a matching DaneEE record authenticates without a hostname check
\* when DaneEEname is false; any other matching record authenticates only
\* if the leaf is valid for Server.Name, and on a name mismatch the result
\* is false, the record has Ok=false and its message ends in
\* ' but name check failed'.
C13_NameCheckUnlessDaneEE ==
    apc = "single"
    => /\ (ares /\ ~(ATr.Usage = DaneEE /\ ~acfg.DaneEEname))
          => NameOK(achain, acfg)
       /\ (~SmtpFiltered(ATr, acfg) /\ Matches(achain, ATr, acfg))
          => IF ATr.Usage = DaneEE /\ ~acfg.DaneEEname
             THEN ares /\ ATr.Ok
             ELSE IF NameOK(achain, acfg)
             THEN ares /\ ATr.Ok
             ELSE /\ ~ares /\ ~ATr.Ok
                  /\ ATr.Message \in {m \o " but name check failed" :
                                         m \in MatchedMessages(achain)}

C13_Witness ==
    /\ apc = "single" /\ ATr.Usage = DaneTA /\ ~SmtpFiltered(ATr, acfg)
    /\ Matches(achain, ATr, acfg) /\ ~NameOK(achain, acfg)
    /\ ~ares /\ ~ATr.Ok
    /\ ATr.Message = "matched TA certificate at depth 1 but name check failed"

\* C14: with Appname 'smtp' and SMTPAnyMode false a record whose usage is
\* not DaneTA or DaneEE never authenticates: it ends Checked=true, Ok=false
\* with 'invalid usage mode for smtp', whatever its hash; with SMTPAnyMode
\* true or another Appname the same record is matched normally.
C14_SmtpIgnoresPkixUsages ==
    /\ (apc = "single" /\ SmtpFiltered(ATr, acfg))
       => (~ares /\ ATr.Checked /\ ~ATr.Ok
              /\ ATr.Message = "invalid usage mode for smtp")
    /\ (apc = "single" /\ ~SmtpFiltered(ATr, acfg)
           /\ ATr.Usage \notin {DaneTA, DaneEE})
       => /\ ATr.Checked /\ ATr.Message # "invalid usage mode for smtp"
          /\ ares <=> (Matches(achain, ATr, acfg) /\ NameOK(achain, acfg))
          /\ ATr.Ok <=> ares
    /\ (apc = "all" /\ \A i \in 1..Len(acfg.TLSA.Rdata) :
                          SmtpFiltered(acfg.TLSA.Rdata[i], acfg))
       => ~acfg.Okdane

C14_Witness ==
    /\ apc = "single" /\ acfg.Appname = "smtp" /\ ~acfg.SMTPAnyMode
    /\ ATr.Usage = PkixEE /\ Matches(achain, ATr, acfg) /\ NameOK(achain, acfg)
    /\ ~ares /\ ATr.Checked /\ ~ATr.Ok
    /\ ATr.Message = "invalid usage mode for smtp"

\* C16: on return from AuthenticateAll every record of Config.TLSA.Rdata
\* has Checked=true, whatever its usage and whichever verified chains the
\* Config holds.
C16_AllRecordsChecked ==
    apc = "all" => \A i \in 1..Len(acfg.TLSA.Rdata) : acfg.TLSA.Rdata[i].Checked

\* The chain list AuthenticateAll takes for a record of a known usage.
ChainsOf(usage, c) ==
    IF usage \in {DaneEE, DaneTA} THEN c.DANEChains
    ELSE IF usage \in {PkixEE, PkixTA} THEN c.PKIXChains
    ELSE <<>>

AllChains(c) == SeqToSet(c.DANEChains) \cup SeqToSet(c.PKIXChains)

\* The call AuthenticateSingle(chain, record i, Config) returns true.  The
\* call reads the record's usage, selector, matching type and data and
\* the Config's settings, none of which AuthenticateAll changes.
SingleTrue(i, chain) ==
    AuthenticateSingle(chain, acfg.TLSA.Rdata[i], acfg).auth

\* C34: AuthenticateAll resets Okdane and probes every record against
\* every chain of the list its usage selects (DANE usages the DANE-verified
\* chains, PKIX usages the PKIX-verified ones) without stopping at a
\* success: on return Okdane is true exactly when one of these calls
\* returned true, whatever Okdane was before, and every record is as the
\* call on the last chain of its list left it.
C34_OkdaneIffSomeCallTrue ==
    apc = "all"
    => /\ acfg.Okdane
          <=> \E i \in 1..Len(acfg.TLSA.Rdata) :
                \E j \in 1..Len(ChainsOf(acfg.TLSA.Rdata[i].Usage, acfg)) :
                    SingleTrue(i, ChainsOf(acfg.TLSA.Rdata[i].Usage, acfg)[j])
       /\ \A i \in 1..Len(acfg.TLSA.Rdata) :
            ChainsOf(acfg.TLSA.Rdata[i].Usage, acfg) # <<>>
            => acfg.TLSA.Rdata[i] =
                 AuthenticateSingle(
                    ChainsOf(acfg.TLSA.Rdata[i].Usage, acfg)
                        [Len(ChainsOf(acfg.TLSA.Rdata[i].Usage, acfg))],
                    acfg.TLSA.Rdata[i], acfg).tr
       /\ \A i \in 1..Len(acfg.TLSA.Rdata) :
            acfg.TLSA.Rdata[i].Usage \notin {PkixTA, PkixEE, DaneTA, DaneEE}
            => \A chain \in AllChains(acfg) : ~SingleTrue(i, chain)

C34_Witness ==
    /\ apc = "all" /\ acfg.Okdane /\ Len(acfg.TLSA.Rdata) = 2
    /\ acfg.TLSA.Rdata[1].Ok /\ acfg.TLSA.Rdata[1].Usage = PkixTA
    /\ acfg.TLSA.Rdata[2].Usage = DaneEE
    /\ acfg.TLSA.Rdata[2].Checked /\ ~acfg.TLSA.Rdata[2].Ok
    /\ acfg.TLSA.Rdata[2].Message = "did not match EE certificate"

\* C35: after AuthenticateAll, Okdane is true exactly when some record of
\* Config.TLSA.Rdata has Ok=true, also for a record probed against several
\* verified chains of which only some match.
C35_OkdaneIffSomeRecordOk ==
    apc = "all"
    => (acfg.Okdane <=> \E i \in 1..Len(acfg.TLSA.Rdata) : acfg.TLSA.Rdata[i].Ok)

-----------------------------------------------------------------------------
(* SpecCopy: a TLSAinfo t as GetTLSA returned it (address 1), installed by
   SetTLSA on Config A and on Config B, whose records are then written by
   authentication.  A TLSAinfo holds pointers to its TLSArdata structs:
   heap[a] is the struct at address a, infos[a].Rdata the addresses a
   TLSAinfo holds. *)

Owners == {"A", "B"}

\* The TLSAinfo at address a with its records read through the pointers.
ViewOf(a) ==
    IF a = 0 THEN NilTLSA
    ELSE TLSAinfo(infos[a].Qname, infos[a].Alias,
                  [i \in 1..Len(infos[a].Rdata) |-> heap[infos[a].Rdata[i]]])

\* Copy's `tr := new(TLSArdata)` for each record of t: the addresses of
\* the copy's records are fresh.
copyAddrs_Shared(h, rdata) == rdata

copyAddrs(h, rdata) == [i \in 1..Len(rdata) |-> Len(h) + i]

\* The heap after the structs recs were written at the addresses addrs.
heapSet(h, addrs, recs) ==
    [a \in 1..(Len(h) + Cardinality({i \in 1..Len(addrs) : addrs[i] > Len(h)})) |->
        IF \E i \in 1..Len(addrs) : addrs[i] = a
        THEN recs[CHOOSE i \in 1..Len(addrs) : addrs[i] = a]
        ELSE h[a]]

CopyRecords == {RdataList[4], RdataList[7], RdataList[11]}
CopySources ==
    {TLSAinfo(TLSAQname, alias, rd) :
        alias \in {<<>>, <<"alias.example.">>},
        rd \in {r \in RdataSets : \A i \in 1..Len(r) : r[i] \in CopyRecords}}
CopyChains == {<<Leaf, IntCA, RootCA>>, <<PrivLeaf, PrivRoot>>}
CopyCfg == [NewConfig EXCEPT !.Okpkix = TRUE]

\* t may carry the match state of an earlier authentication.
CopyInit ==
    /\ \E t \in CopySources : \E b \in [1..Len(t.Rdata) -> BOOLEAN] :
        /\ heap = [i \in 1..Len(t.Rdata) |-> Probed(t.Rdata[i], b[i])]
        /\ infos = <<[Qname |-> t.Qname, Alias |-> t.Alias,
                      Rdata |-> [i \in 1..Len(t.Rdata) |-> i]]>>
    /\ tlsaOf = [X \in Owners |-> 0]
    /\ VerifyIdle /\ MatchIdle /\ DnsIdle /\ ByNameIdle /\ AuthIdle
    /\ StartIdle /\ CallIdle

CopyRest == UNCHANGED <<verifyVars, matchVars, dnsVars, byNameVars, authVars,
               startVars, callVars>>

\* `c.TLSA = tlsa.Copy(); c.TLSA.Uncheck()`: the copy c, its records at
\* addrs.
installed(X, addrs, c) ==
    /\ heap' = heapSet(heap, addrs, c.Rdata)
    /\ infos' = Append(infos, [Qname |-> c.Qname, Alias |-> c.Alias,
                               Rdata |-> addrs])
    /\ tlsaOf' = [tlsaOf EXCEPT ![X] = Len(infos) + 1]

\* config.SetTLSA(t) on the fresh Config X
InstallTLSA(X) ==
    /\ tlsaOf[X] = 0
    /\ installed(X, copyAddrs(heap, infos[1].Rdata), Uncheck(Copy(ViewOf(1))))
    /\ CopyRest

\* An authentication with Config X writes Checked, Ok and Message of one
\* of the Config's records through its pointer.
AuthRecord(X) ==
    /\ tlsaOf[X] # 0
    /\ \E i \in 1..Len(infos[tlsaOf[X]].Rdata), chain \in CopyChains :
        heap' = [heap EXCEPT ![infos[tlsaOf[X]].Rdata[i]] =
                    AuthenticateSingle(chain, @, CopyCfg).tr]
    /\ UNCHANGED <<infos, tlsaOf>>
    /\ CopyRest

CopyNext == \E X \in Owners : InstallTLSA(X) \/ AuthRecord(X)

SpecCopy == CopyInit /\ [][CopyNext]_vars

\* The copy c of t: same qname and aliases, the records' usage, selector,
\* matching type and data in order, all match state cleared.
FreshCopyOf(c, t) ==
    /\ ~c.isnil /\ c.Qname = t.Qname /\ c.Alias = t.Alias
    /\ Len(c.Rdata) = Len(t.Rdata)
    /\ \A i \in 1..Len(c.Rdata) :
        /\ c.Rdata[i].Usage = t.Rdata[i].Usage
        /\ c.Rdata[i].Selector = t.Rdata[i].Selector
        /\ c.Rdata[i].Mtype = t.Rdata[i].Mtype
        /\ c.Rdata[i].Data = t.Rdata[i].Data
        /\ ~c.Rdata[i].Checked /\ ~c.Rdata[i].Ok /\ c.Rdata[i].Message = ""

\* C15: SetTLSA installs an independent deep copy.  A write to the match
\* state of one Config's records changes neither the other Config's records
\* nor those of the source t; SetTLSA leaves t and the other Config as they
\* were, and the installed copy keeps qname, aliases and the records'
\* usage, selector, matching type and data in order, with every record
\* unchecked even if t's records carried match state.
C15_SetTLSAIndependentCopy ==
    [][\A X \in Owners : \A Y \in Owners \ {X} :
        /\ AuthRecord(X)
           => /\ ViewOf(tlsaOf[Y])' = ViewOf(tlsaOf[Y])
              /\ ViewOf(1)' = ViewOf(1)
        /\ InstallTLSA(X)
           => /\ ViewOf(tlsaOf[Y])' = ViewOf(tlsaOf[Y])
              /\ ViewOf(1)' = ViewOf(1)
              /\ FreshCopyOf(ViewOf(tlsaOf[X])', ViewOf(1))]_vars

C15_Witness ==
    /\ tlsaOf # <<>> /\ tlsaOf["A"] # 0 /\ tlsaOf["B"] # 0
    /\ ViewOf(1).Rdata[1].Checked /\ ViewOf(1).Rdata[1].Ok
    /\ ViewOf(tlsaOf["A"]).Rdata[1].Checked /\ ~ViewOf(tlsaOf["A"]).Rdata[1].Ok
    /\ FreshCopyOf(ViewOf(tlsaOf["B"]), ViewOf(1))

-----------------------------------------------------------------------------
(* SpecStartTLS: a Config with an application name and up to MaxDials calls
   of DialStartTLS with it, each against a server that follows a script *)

\* Most DialStartTLS calls made with one Config.
MaxDials == 2

StartApps == STARTTLSApps \cup {"", "blah"}

SmtpGreet == <<"220", " ", "mail.example.com ESMTP">>
SmtpScripts ==
    { <<SmtpGreet, <<"250", "-", "mail.example.com">>,
        <<"250", " ", "STARTTLS">>, <<"220", " ", "Ready to start TLS">>>>,
      <<<<"220", "-", "welcome">>, SmtpGreet, <<"250", "-", "STARTTLS">>,
        <<"250", " ", "OK">>, <<"220", " ", "Ready to start TLS">>>>,
      <<SmtpGreet, <<"250", "-", "mail.example.com">>, <<"250", " ", "OK">>>>,
      <<SmtpGreet, <<"250", " ", "STARTTLS">>,
        <<"454", " ", "TLS not available">>>>,
      <<SmtpGreet, <<"250", "-", "STARTTLS">>, <<"500", " ", "error">>>>,
      <<SmtpGreet, <<"250", "-", "STARTTLS">>>>,
      <<<<"554", " ", "no service">>>>,
      <<<<"ABC", " ", "hello">>>>,
      <<<<"220">>>>,
      <<SmtpGreet, <<>>>>,
      <<>> }

ImapScripts ==
    { <<<<"* OK", " ready">>, <<"* CAPABILITY", " IMAP4rev1 ", "STARTTLS">>,
        <<". OK", " done">>, <<". OK", " begin TLS">>>>,
      <<<<"* OK", " ready">>, <<"* CAPABILITY", " IMAP4rev1">>,
        <<". OK", " done">>>>,
      <<<<"* OK", " ready">>, <<"* CAPABILITY", " IMAP4rev1 ", "STARTTLS">>,
        <<". OK", " done">>, <<". BAD", " no">>>>,
      <<<<"* BYE", " overloaded">>, <<"* CAPABILITY", " ", "STARTTLS">>,
        <<". OK", " done">>, <<". OK", " begin TLS">>>>,
      <<<<"* OK", " ready">>, <<"* CAPABILITY", " IMAP4rev1 ", "STARTTLS">>>>,
      <<>> }

Pop3Scripts ==
    { <<<<"+OK", " ready">>, <<"+OK", " begin TLS">>>>,
      <<<<"+OK", " ready">>, <<"-ERR", " unknown command">>>>,
      <<<<"-ERR", " busy">>, <<"+OK", " begin TLS">>>>,
      <<<<"+OK", " ready">>>>,
      <<>> }

XmppFeatures ==
    <<"<stream:features>", "<starttls", " xmlns='",
      "urn:ietf:params:xml:ns:xmpp-tls", "'/>", "</stream:features>">>
XmppScripts ==
    { <<XmppFeatures, <<"<proceed", " xmlns='urn:ietf:params:xml:ns:xmpp-tls'/>">>>>,
      <<XmppFeatures, <<"<failure", " xmlns='urn:ietf:params:xml:ns:xmpp-tls'/>">>>>,
      <<XmppFeatures \o <<"<!-- ", "<proceed", " -->">>, <<"<failure", "/>">>>>,
      <<<<"<stream:features>", "</stream:features>">>>>,
      <<XmppFeatures>>,
      <<>> }

Scripts(appname) ==
    IF appname = "smtp" THEN SmtpScripts
    ELSE IF appname = "imap" THEN ImapScripts
    ELSE IF appname = "pop3" THEN Pop3Scripts
    ELSE IF appname \in {"xmpp-client", "xmpp-server"} THEN XmppScripts
    ELSE {<<>>, <<SmtpGreet>>}

StartInit ==
    /\ StartIdle
    /\ VerifyIdle /\ MatchIdle /\ DnsIdle /\ ByNameIdle /\ AuthIdle /\ CopyIdle
    /\ CallIdle

StartRest ==
    UNCHANGED <<verifyVars, matchVars, dnsVars, byNameVars, authVars, copyVars,
                callVars>>

StartSetAppName ==
    /\ sdials = 0
    /\ \E appname \in StartApps : sconfig' = SetAppName(sconfig, appname)
    /\ UNCHANGED <<session, sdials>>
    /\ StartRest

\* DialStartTLS returned r; hs is the error of the TLS handshake, if it
\* was started.
startTLSDone(r, hs) ==
    /\ session' = [r EXCEPT !.err = IF r.tls THEN hs ELSE r.err]
    /\ sconfig' = [sconfig EXCEPT !.Transcript = r.Transcript]
    /\ sdials' = sdials + 1

CallStartTLS ==
    /\ sdials < MaxDials
    /\ sdials > 0 => ~session.panic
    /\ \E tcpok \in BOOLEAN, script \in Scripts(sconfig.Appname),
          hs \in {NoErr, ErrDaneAuth} :
        startTLSDone(StartTLS(sconfig, tcpok, script), hs)
    /\ StartRest

StartNext == StartSetAppName \/ CallStartTLS

SpecStartTLS == StartInit /\ [][StartNext]_vars

\* The transcript of what went over the connection.
RECURSIVE TranscriptOf(_)
TranscriptOf(wire) ==
    IF wire = <<>> THEN ""
    ELSE wire[1][1] \o ": " \o wire[1][2] \o "\n" \o TranscriptOf(Tail(wire))

\* C24: after DialStartTLS has returned, with or without an error,
\* Config.Transcript holds, in order, every line sent and received during
\* the exchange, each prefixed 'send: ' or 'recv: '.
C24_TranscriptHoldsExchange ==
    (sdials > 0 /\ ~session.panic)
    => sconfig.Transcript = TranscriptOf(session.wire)

\* C25: DialStartTLS with an Appname that is none of smtp, imap, pop3,
\* xmpp-client, xmpp-server returns the 'unknown STARTTLS application'
\* error, having opened no TCP connection, exchanged nothing and started no
\* TLS handshake.
C25_UnknownAppNoConnection ==
    (sdials > 0 /\ sconfig.Appname \notin STARTTLSApps)
    => /\ session.err = ErrUnknownAppFor(sconfig.Appname)
       /\ ~session.tcp /\ ~session.tls /\ ~session.panic
       /\ session.wire = <<>> /\ sconfig.Transcript = ""

C25_Witness ==
    /\ sdials > 0 /\ sconfig.Appname = "blah"
    /\ session.err = "unknown STARTTLS application: blah"
    /\ ~session.tcp

\* The line (as pieces) a server sent, from its text on the wire.
ScriptLines ==
    UNION {SeqToSet(script) :
              script \in SmtpScripts \cup ImapScripts \cup Pop3Scripts
                         \cup XmppScripts}
LineOf(text) == CHOOSE l \in ScriptLines : Cat(l) = text

LineApps == {"smtp", "imap", "pop3"}
XmppApps == {"xmpp-client", "xmpp-server"}

\* The command that asks for the upgrade, the server's positive reply to
\* it, and a capability line that advertises STARTTLS.
UpgradeCmd(appname) ==
    IF appname = "smtp" THEN "STARTTLS"
    ELSE IF appname = "imap" THEN ". STARTTLS"
    ELSE IF appname = "pop3" THEN "STLS"
    ELSE XmppStartTLS

PositiveReply(appname, l) ==
    IF appname = "smtp" THEN Len(l) >= 1 /\ l[1] = "220"
    ELSE IF appname = "imap" THEN HasPrefix(l, ". OK")
    ELSE IF appname = "pop3" THEN HasPrefix(l, "+OK")
    ELSE Contains(l, "<proceed")

Advertises(appname, l) ==
    IF appname = "smtp"
    THEN Len(l) >= 3 /\ l[1] = "250" /\ Contains(SubSeq(l, 3, Len(l)), "STARTTLS")
    ELSE IF appname = "imap"
    THEN HasPrefix(l, "* CAPABILITY") /\ Contains(l, "STARTTLS")
    ELSE Contains(l, "<starttls") /\ Contains(l, "urn:ietf:params:xml:ns:xmpp-tls")

ExpectedGreeting(appname, l) ==
    IF appname = "smtp" THEN Len(l) >= 1 /\ l[1] = "220"
    ELSE IF appname = "imap" THEN HasPrefix(l, "* OK")
    ELSE HasPrefix(l, "+OK")

Received(w, k, P(_)) == w[k][1] = "recv" /\ P(LineOf(w[k][2]))

\* C38: the TLS handshake is started only right after the server's positive
\* reply to the upgrade command; for smtp, imap and xmpp the upgrade
\* command is sent only after a capability response that advertises
\* STARTTLS; a call that does not reach the handshake returns an error.
C38_HandshakeOnlyAfterPositiveReply ==
    (sdials > 0 /\ ~session.panic /\ sconfig.Appname \in STARTTLSApps)
    => /\ session.tls
          => /\ Len(session.wire) >= 2
             /\ session.wire[Len(session.wire)][1] = "recv"
             /\ PositiveReply(sconfig.Appname,
                              LineOf(session.wire[Len(session.wire)][2]))
             /\ session.wire[Len(session.wire) - 1]
                  = <<"send", UpgradeCmd(sconfig.Appname)>>
       /\ \A k \in 1..Len(session.wire) :
            (/\ sconfig.Appname # "pop3"
             /\ session.wire[k] = <<"send", UpgradeCmd(sconfig.Appname)>>)
            => \E j \in 1..(k - 1) :
                 /\ session.wire[j][1] = "recv"
                 /\ Advertises(sconfig.Appname, LineOf(session.wire[j][2]))
       /\ ~session.tls => session.err # NoErr

\* C39: smtp, imap and pop3 send their first command only after the
\* expected greeting (220, '* OK', '+OK'): the line received right before
\* the first command is that greeting, and after any other greeting
\* nothing is sent.
C39_GreetingBeforeFirstCommand ==
    (sdials > 0 /\ ~session.panic /\ sconfig.Appname \in LineApps)
    => \A k \in 1..Len(session.wire) :
         (/\ session.wire[k][1] = "send"
          /\ \A j \in 1..(k - 1) : session.wire[j][1] = "recv")
         => /\ k > 1
            /\ ExpectedGreeting(sconfig.Appname, LineOf(session.wire[k - 1][2]))

\* C40: whatever lines the server sends, short and non-numeric ones
\* included, DoSMTP returns: with the TLS connection or with an error.
C40_DoSMTPAlwaysReturns ==
    (sdials > 0 /\ sconfig.Appname = "smtp")
    => /\ ~session.panic
       /\ session.tls \/ session.err # NoErr

-----------------------------------------------------------------------------
(* SpecCalls: one call of ComputeTLSA, NewServer or NewConfig on arguments
   drawn from small sets *)

\* selector and mtype are uint8.
SelectorArgs == {0, 1, 2, 3, 255}
CertArgs == {Leaf, LeafOther, IntCA, RootCA, PrivLeaf, PrivRoot}

\* The ip argument (interface{}): a net.IP, a string, or another type.
IPArgs ==
    {[type |-> "net.IP", val |-> IP("v4", 1)],
     [type |-> "net.IP", val |-> IP("v6", 1)],
     [type |-> "string", val |-> "192.0.2.1"],
     [type |-> "string", val |-> "2001:db8::1"],
     [type |-> "string", val |-> "not-an-address"],
     [type |-> "string", val |-> ""],
     [type |-> "int", val |-> 42]}
PortArgs == {-1, 0, 1, 443, 65535, 65536}

\* net.ParseIP: nil for a string that is not an IP address.
ParseIP(s) ==
    IF s = "192.0.2.1" THEN IP("v4", 1)
    ELSE IF s = "2001:db8::1" THEN IP("v6", 1)
    ELSE NoIP

\* NewServer: a *Server, never nil; Ipaddr stays nil for an ip of another
\* type.
NewServer(name, ip, port) ==
    [isnil |-> FALSE, Name |-> name,
     Ipaddr |-> IF ip.type = "net.IP" THEN ip.val
                ELSE IF ip.type = "string" THEN ParseIP(ip.val)
                ELSE NoIP,
     Port |-> port]

\* NewConfig(hostname, ip, port)
NewConfigWith(hostname, ip, port) ==
    [NewConfig EXCEPT !.Server = NewServer(hostname, ip, port)]

CallsInit ==
    /\ CallIdle
    /\ VerifyIdle /\ MatchIdle /\ DnsIdle /\ ByNameIdle /\ AuthIdle /\ CopyIdle
    /\ StartIdle

CallsRest ==
    UNCHANGED <<verifyVars, matchVars, dnsVars, byNameVars, authVars, copyVars,
                startVars>>

CallComputeTLSA ==
    /\ fcall = <<>>
    /\ \E selector \in SelectorArgs, mtype \in SelectorArgs, cert \in CertArgs :
        /\ fcall' = <<"ComputeTLSA", selector, mtype, cert>>
        /\ fres' = ComputeTLSA(selector, mtype, cert)
    /\ CallsRest

CallNewServer ==
    /\ fcall = <<>>
    /\ \E ip \in IPArgs, port \in PortArgs :
        /\ fcall' = <<"NewServer", HostName, ip, port>>
        /\ fres' = NewServer(HostName, ip, port)
    /\ CallsRest

CallNewConfig ==
    /\ fcall = <<>>
    /\ \E ip \in IPArgs, port \in PortArgs :
        /\ fcall' = <<"NewConfig", HostName, ip, port>>
        /\ fres' = NewConfigWith(HostName, ip, port).Server
    /\ CallsRest

\* What the network does to one query: see Reply and Failure.
QueryMsgs ==
    {Msg("NOERROR", TRUE, tc, an) :
        tc \in BOOLEAN, an \in {<<>>, AddrAnswer("A", "v4", 1)}}
QueryExchanges ==
    { [fails |-> f, failKind |-> k, udp |-> u, tcp |-> t] :
        f \in 0..MaxFails, k \in {"timeout", "other"},
        u \in {Failure(ErrNet)} \cup {Reply(m) : m \in QueryMsgs},
        t \in {Failure(ErrNet)} \cup {Reply(m) : m \in QueryMsgs} }
RetriesArgs == {0, 1, 2, defaultDNSRetries}

CallSendQueryUDP ==
    /\ fcall = <<>>
    /\ \E n \in RetriesArgs, x \in QueryExchanges :
        /\ fcall' = <<"sendQueryUDP", n, x>>
        /\ fres' = sendQueryUDP([NewResolver EXCEPT !.Retries = n], x)
    /\ CallsRest

CallSendQuery ==
    /\ fcall = <<>>
    /\ \E n \in RetriesArgs, x \in QueryExchanges :
        /\ fcall' = <<"sendQuery", n, x>>
        /\ fres' = sendQuery([NewResolver EXCEPT !.Retries = n], x)
    /\ CallsRest

CallsNext ==
    \/ CallComputeTLSA \/ CallNewServer \/ CallNewConfig
    \/ CallSendQueryUDP \/ CallSendQuery

SpecCalls == CallsInit /\ [][CallsNext]_vars

Called(fn) == fcall # <<>> /\ fcall[1] = fn

\* C26: ComputeTLSA's result is determined by selector, mtype and the
\* certificate's encodings: selector 0 / 1 takes the full DER / the
\* SubjectPublicKeyInfo DER, mtype 0 / 1 / 2 yields the hex string of the
\* preimage / of its SHA-256 / of its SHA-512; another selector yields the
\* unknown-selector error, and with a valid selector another mtype yields
\* the unknown-matching-type error, both with the empty string.
C26_ComputeTLSAByCases ==
    Called("ComputeTLSA")
    => /\ fcall[2] \notin {0, 1}
          => fres = [hash |-> EmptyHex,
                     err |-> "unknown TLSA selector: " \o ToString(fcall[2])]
       /\ (fcall[2] \in {0, 1} /\ fcall[3] \notin {0, 1, 2})
          => fres = [hash |-> EmptyHex,
                     err |-> "unknown TLSA matching type: " \o ToString(fcall[3])]
       /\ (fcall[2] \in {0, 1} /\ fcall[3] \in {0, 1, 2})
          => /\ fres.err = NoErr
             /\ fres.hash.alg = <<"full", "sha256", "sha512">>[fcall[3] + 1]
             /\ fres.hash.pre = <<fcall[4].raw, fcall[4].spki>>[fcall[2] + 1]
       /\ \A cert \in CertArgs :
            (cert.raw = fcall[4].raw /\ cert.spki = fcall[4].spki)
            => ComputeTLSA(fcall[2], fcall[3], cert) = fres

C26_Witness ==
    /\ Called("ComputeTLSA") /\ fcall[2] = 1 /\ fcall[3] = 2 /\ fcall[4] = Leaf
    /\ fres = [hash |-> Hex("sha512", Leaf.spki), err |-> NoErr]

\* The ip argument is an IP address or a string that parses as one.
ValidIP(ip) ==
    \/ ip.type = "net.IP"
    \/ ip.type = "string" /\ ip.val \in {"192.0.2.1", "2001:db8::1"}

\* C27: NewServer, and NewConfig through it, rejects an IP string that does
\* not parse and a port outside 1..65535: no Server comes back for them.
C27_ConstructionValidates ==
    (/\ Called("NewServer") \/ Called("NewConfig")
     /\ ~ValidIP(fcall[3]) \/ fcall[4] \notin 1..65535)
    => fres.isnil

\* C31: sendQuery never crashes and never returns a nil response with a
\* nil error; with Retries = 0, where no UDP query goes out, it returns
\* the null-response error.
C31_NullResponseIsAnError ==
    Called("sendQuery")
    => /\ ~fres.panic
       /\ ~(fres.isnil /\ fres.err = NoErr)
       /\ fcall[2] = 0 => (fres.isnil /\ fres.err = ErrNullResponse)

\* The UDP attempts of the exchange that went out, given Retries.
UdpSends(retries, x) == IF retries <= x.fails THEN retries ELSE x.fails + 1

\* What sendQueryUDP does whatever made the earlier attempts fail: at most
\* Retries queries; the first response ends the loop and is returned; a
\* net.Error that is no timeout ends it too and is returned; when every
\* attempt failed the last error is returned.
UdpLoopAsCoded ==
    /\ fres.sends <= fcall[2]
    /\ fres.sends = UdpSends(fcall[2], fcall[3])
    /\ fcall[2] > fcall[3].fails
       => /\ fres.err = fcall[3].udp.err
          /\ fres.isnil = (fcall[3].udp.err # NoErr)
          /\ ~fres.isnil => fres.msg = fcall[3].udp.msg
    /\ (fcall[2] <= fcall[3].fails /\ fcall[2] > 0)
       => /\ fres.isnil
          /\ fres.err = IF fcall[3].failKind = "timeout"
                        THEN ErrTimeout ELSE ErrOther

TruncatedOverUDP ==
    /\ fcall[2] > fcall[3].fails
    /\ fcall[3].udp.err = NoErr /\ fcall[3].udp.msg.Truncated

\* C33: sendQuery sends one TCP query exactly when the UDP exchange ended
\* with a TC-flagged response, and none otherwise; after a TCP query the
\* caller gets the TCP outcome, its error or its response, so a response
\* with the TC flag that reaches the caller came over TCP.
C33_TCPExactlyOnTruncation ==
    Called("sendQuery")
    => /\ fres.tcpSends = IF TruncatedOverUDP THEN 1 ELSE 0
       /\ TruncatedOverUDP
          => /\ fres.err = fcall[3].tcp.err
             /\ fres.isnil = (fcall[3].tcp.err # NoErr)
             /\ ~fres.isnil => fres.msg = fcall[3].tcp.msg
       /\ (~TruncatedOverUDP /\ ~fres.isnil)
          => (fres.msg = fcall[3].udp.msg /\ ~fres.msg.Truncated)

C33_Witness ==
    /\ Called("sendQuery") /\ TruncatedOverUDP /\ fcall[3].fails = 1
    /\ fcall[3].tcp = Reply(Msg("NOERROR", TRUE, FALSE, AddrAnswer("A", "v4", 1)))
    /\ fres.tcpSends = 1 /\ fres.udpSends = 2
    /\ fres.msg = fcall[3].tcp.msg /\ fres.err = NoErr

-----------------------------------------------------------------------------
(* SpecDNS: a resolver, possibly reconfigured, and one GetTLSA call *)

RR_TLSA(name, tr) ==
    [Name |-> name, Rrtype |-> "TLSA", Usage |-> tr.Usage,
     Selector |-> tr.Selector, MatchingType |-> tr.Mtype,
     Certificate |-> tr.Data]
RR_Other(name, rrtype) ==
    [Name |-> name, Rrtype |-> rrtype, Usage |-> 0, Selector |-> 0,
     MatchingType |-> 0, Certificate |-> EmptyHex]

TLSAanswers ==
    { <<>>,
      <<RR_TLSA(TLSAQname, RdataList[11])>>,
      <<RR_TLSA(TLSAQname, RdataList[11]), RR_Other(TLSAQname, "RRSIG")>>,
      <<RR_TLSA(TLSAQname, RdataList[1]), RR_TLSA(TLSAQname, RdataList[11])>>,
      <<RR_Other(TLSAQname, "CNAME"), RR_TLSA("alias.example.", RdataList[11])>>,
      <<RR_Other(TLSAQname, "CNAME")>> }

Rcodes == {"NOERROR", "NXDOMAIN", "SERVFAIL"}

TLSAmsgs ==
    {Msg(rc, ad, tc, an) : rc \in Rcodes, ad \in BOOLEAN, tc \in BOOLEAN,
                           an \in TLSAanswers}

\* What the network may do to one TLSA query; tcp matters only after a
\* truncated UDP response.
TLSAExchanges ==
    { [fails |-> f, failKind |-> k, udp |-> u, tcp |-> t] :
        f \in 0..MaxFails, k \in {"timeout", "other"},
        u \in {Failure(ErrNet)} \cup {Reply(m) : m \in TLSAmsgs},
        t \in {Failure(ErrNet)} \cup {Reply(m) : m \in TLSAmsgs} }

RelevantExchange(x) ==
    /\ (x.fails = 0 => x.failKind = "timeout")
    /\ (~(x.udp.err = NoErr /\ x.udp.msg.Truncated) => x.tcp = Failure(ErrNet))

DnsInit ==
    /\ resolver = NewResolver
    /\ exchange = <<>> /\ tlsaRes = <<>> /\ dpc = "init"
    /\ addrCall = <<>> /\ addrRes = <<>>
    /\ VerifyIdle /\ MatchIdle /\ ByNameIdle /\ AuthIdle /\ CopyIdle
    /\ StartIdle /\ CallIdle

DnsRest == UNCHANGED <<verifyVars, matchVars, byNameVars, authVars, copyVars,
               startVars, callVars>>

\* The caller adjusts the exported Resolver fields.
SetPkixfallback ==
    /\ dpc = "init"
    /\ \E b \in BOOLEAN : resolver' = [resolver EXCEPT !.Pkixfallback = b]
    /\ UNCHANGED <<exchange, tlsaRes, dpc, addrCall, addrRes>> /\ DnsRest

SetRetries ==
    /\ dpc = "init"
    /\ \E n \in {0, 1, defaultDNSRetries} : resolver' = [resolver EXCEPT !.Retries = n]
    /\ UNCHANGED <<exchange, tlsaRes, dpc, addrCall, addrRes>> /\ DnsRest

CallGetTLSA ==
    /\ dpc = "init"
    /\ \E x \in TLSAExchanges :
        /\ RelevantExchange(x)
        /\ exchange' = x
        /\ tlsaRes' = GetTLSA(resolver, HostName, x)
    /\ dpc' = "done"
    /\ UNCHANGED <<resolver, addrCall, addrRes>> /\ DnsRest

\* An answer section that follows an alias: a CNAME record, two address
\* records of the queried type and one of the other address type.
MixedAnswer(rrtype, fam) ==
    <<[Name |-> "host.", Rrtype |-> "CNAME", Addr |-> NoIP],
      RR_Addr("alias.", rrtype, IP(fam, 2)),
      RR_Addr("alias.", IF rrtype = "A" THEN "AAAA" ELSE "A",
              IP(IF fam = "v4" THEN "v6" ELSE "v4", 3)),
      RR_Addr("alias.", rrtype, IP(fam, 1))>>

\* What the network may do to one address query.
DnsAddrMsgs(rrtype, fam) ==
    {Msg("NOERROR", ad, FALSE, AddrAnswer(rrtype, fam, n)) :
        ad \in BOOLEAN, n \in {0, 1}}
    \cup {Msg("NOERROR", TRUE, FALSE, MixedAnswer(rrtype, fam))}
    \cup {Msg(rc, ad, FALSE, <<>>) : rc \in {"NXDOMAIN", "SERVFAIL"}, ad \in BOOLEAN}

TruncatedMsg == Msg("NOERROR", FALSE, TRUE, <<>>)

DnsAddrExchanges(rrtype, fam) ==
    { [fails |-> f, failKind |-> "timeout", udp |-> u, tcp |-> Failure(ErrNet)] :
        f \in {0, 1, MaxFails},
        u \in {Failure(ErrNet)} \cup {Reply(m) : m \in DnsAddrMsgs(rrtype, fam)} }
    \cup
    { [fails |-> f, failKind |-> "timeout", udp |-> Reply(TruncatedMsg), tcp |-> t] :
        f \in {0, 1, MaxFails},
        t \in {Failure(ErrNet)} \cup {Reply(m) : m \in DnsAddrMsgs(rrtype, fam)} }

SetFamilies ==
    /\ dpc = "init"
    /\ \E v6 \in BOOLEAN, v4 \in BOOLEAN :
        resolver' = [resolver EXCEPT !.IPv6 = v6, !.IPv4 = v4]
    /\ UNCHANGED <<exchange, tlsaRes, dpc, addrCall, addrRes>> /\ DnsRest

CallGetAddresses ==
    /\ dpc = "init"
    /\ \E secure \in BOOLEAN, x6 \in DnsAddrExchanges("AAAA", "v6"),
          x4 \in DnsAddrExchanges("A", "v4") :
        /\ addrCall' = [secure |-> secure, x6 |-> x6, x4 |-> x4]
        /\ addrRes' = GetAddresses(resolver, HostName, secure, x6, x4)
    /\ dpc' = "addr"
    /\ UNCHANGED <<resolver, exchange, tlsaRes>> /\ DnsRest

DnsNext ==
    \/ SetPkixfallback \/ SetRetries \/ SetFamilies
    \/ CallGetTLSA \/ CallGetAddresses

SpecDNS == DnsInit /\ [][DnsNext]_vars

\* GetTLSA obtained a response (sendQuery returned a message).
GotResponse == dpc = "done" /\ ~tlsaRes.panic /\ ~tlsaRes.isnil

\* C5 as stated: a non-nil TLSAinfo only from a response with AD; for a
\* response without AD the nil sentinel and no error when Pkixfallback is
\* true, the unauthenticated-TLSA error when it is false.
C5_ADPolicyAsStated ==
    dpc = "done"
    => /\ ~tlsaRes.tlsa.isnil
          => (GotResponse /\ tlsaRes.response.AuthenticatedData)
       /\ (GotResponse /\ ~tlsaRes.response.AuthenticatedData)
          => IF resolver.Pkixfallback
             THEN tlsaRes.tlsa.isnil /\ tlsaRes.err = NoErr
             ELSE tlsaRes.tlsa.isnil /\ tlsaRes.err = ErrUnauthTLSA

\* C5 amended: a non-nil TLSAinfo only from a response with AD; for a
\* response without AD whose rcode is NOERROR or NXDOMAIN the nil sentinel
\* and no error when Pkixfallback is true, the unauthenticated-TLSA error
\* when it is false; any other response without AD yields an error and nil.
C5_ADPolicy ==
    dpc = "done"
    => /\ ~tlsaRes.tlsa.isnil
          => (GotResponse /\ tlsaRes.response.AuthenticatedData)
       /\ (GotResponse /\ ~tlsaRes.response.AuthenticatedData)
          => /\ tlsaRes.tlsa.isnil
             /\ IF tlsaRes.response.Rcode \notin {"NOERROR", "NXDOMAIN"}
                THEN tlsaRes.err # NoErr
                ELSE IF resolver.Pkixfallback
                THEN tlsaRes.err = NoErr
                ELSE tlsaRes.err = ErrUnauthTLSA

C5_Witness ==
    /\ GotResponse /\ ~tlsaRes.response.AuthenticatedData
    /\ tlsaRes.response.Rcode = "NOERROR"
    /\ Len(tlsaRes.response.Answer) > 0
    /\ resolver.Pkixfallback /\ tlsaRes.tlsa.isnil /\ tlsaRes.err = NoErr

\* C17 as stated: for every response with rcode NXDOMAIN GetTLSA returns
\* the non-existent-domain-name error, whatever the AD flag and Pkixfallback.
C17_NXDomainAsStated ==
    (GotResponse /\ tlsaRes.response.Rcode = "NXDOMAIN")
    => (tlsaRes.tlsa.isnil /\ tlsaRes.err = ErrNXDomain)

\* C17 amended: for a response with rcode NXDOMAIN and the AD flag set
\* GetTLSA returns the non-existent-domain-name error whatever Pkixfallback
\* is; without AD the AD policy decides first: nil and no error when
\* Pkixfallback is true, the unauthenticated-TLSA error otherwise.
C17_NXDomainAfterAD ==
    (GotResponse /\ tlsaRes.response.Rcode = "NXDOMAIN")
    => /\ tlsaRes.tlsa.isnil
       /\ tlsaRes.err = IF tlsaRes.response.AuthenticatedData THEN ErrNXDomain
                        ELSE IF resolver.Pkixfallback THEN NoErr
                        ELSE ErrUnauthTLSA

C17_Witness ==
    /\ GotResponse /\ tlsaRes.response.Rcode = "NXDOMAIN"
    /\ tlsaRes.response.AuthenticatedData /\ resolver.Pkixfallback
    /\ tlsaRes.tlsa.isnil /\ tlsaRes.err = ErrNXDomain

\* The answer section holds no TLSA record.
NoTLSAIn(answer) == \A i \in 1..Len(answer) : answer[i].Rrtype # "TLSA"

\* C18: for an authenticated NOERROR response whose answer section holds
\* no TLSA record (empty, or only other records) GetTLSA returns nil without
\* error when Pkixfallback is true and the no-TLSA-records error otherwise;
\* it never returns a TLSAinfo without rdata entries.
C18_NoTLSARecordsPolicy ==
    /\ (GotResponse /\ tlsaRes.response.AuthenticatedData
           /\ tlsaRes.response.Rcode = "NOERROR"
           /\ NoTLSAIn(tlsaRes.response.Answer))
       => /\ tlsaRes.tlsa.isnil
          /\ tlsaRes.err = IF resolver.Pkixfallback THEN NoErr ELSE ErrNoTLSA
    /\ (dpc = "done" /\ ~tlsaRes.tlsa.isnil) => Len(tlsaRes.tlsa.Rdata) > 0

\* What sendQuery hands to its caller for exchange x: the UDP response
\* once the failed attempts are within the retries, the TCP response when
\* that one is truncated; an error otherwise.
Delivered(x) ==
    IF resolver.Retries <= x.fails \/ x.udp.err # NoErr THEN Failure(ErrTimeout)
    ELSE IF x.udp.msg.Truncated THEN x.tcp
    ELSE x.udp

GoodAddrResponse(x, secure) ==
    /\ Delivered(x).err = NoErr
    /\ Delivered(x).msg.Rcode = "NOERROR"
    /\ secure => Delivered(x).msg.AuthenticatedData

\* C19: GetAddresses with secure=true returns addresses only if every
\* response it used had the AD flag; if a queried response lacks AD, has
\* rcode NXDOMAIN or another rcode than NOERROR, or the query fails, the
\* call returns an error and no addresses, also none of an earlier AAAA
\* answer.
C19_SecureAddressesNeedAD ==
    (dpc = "addr" /\ addrCall.secure /\ ~addrRes.panic)
    => /\ addrRes.err = NoErr
          => /\ resolver.IPv6 => GoodAddrResponse(addrCall.x6, TRUE)
             /\ resolver.IPv4 => GoodAddrResponse(addrCall.x4, TRUE)
       /\ (\/ resolver.IPv6 /\ ~GoodAddrResponse(addrCall.x6, TRUE)
           \/ resolver.IPv4 /\ ~GoodAddrResponse(addrCall.x4, TRUE))
          => (addrRes.err # NoErr /\ addrRes.ipList = <<>>)

C19_Witness ==
    /\ dpc = "addr" /\ addrCall.secure /\ resolver.IPv6 /\ resolver.IPv4
    /\ GoodAddrResponse(addrCall.x6, TRUE)
    /\ Len(Delivered(addrCall.x6).msg.Answer) = 1
    /\ Delivered(addrCall.x4).err = NoErr
    /\ Delivered(addrCall.x4).msg.Rcode = "NOERROR"
    /\ Len(Delivered(addrCall.x4).msg.Answer) = 1
    /\ ~Delivered(addrCall.x4).msg.AuthenticatedData
    /\ addrRes.err = ErrAddrUnauth /\ addrRes.ipList = <<>>

\* The addresses of the records of type rrtype in the answer of the
\* response GetAddresses read for exchange x, in answer order.
AnswerIPs(x, rrtype) ==
    LET of == SelectSeq(Delivered(x).msg.Answer, LAMBDA rr : rr.Rrtype = rrtype)
    IN  [i \in 1..Len(of) |-> of[i].Addr]

\* C23: GetAddresses queries AAAA before A, each only if the resolver's
\* IPv6 / IPv4 flag is set: a failure of the AAAA query is the error
\* returned, whatever the A query would yield; the list returned is the
\* AAAA answers in answer order followed by the A answers in answer order,
\* of the answer records whose type is the queried type only.
C23_AAAAThenAInAnswerOrder ==
    (dpc = "addr" /\ ~addrRes.panic)
    => /\ addrRes.err = NoErr
          => addrRes.ipList =
                (IF resolver.IPv6 THEN AnswerIPs(addrCall.x6, "AAAA") ELSE <<>>)
                \o (IF resolver.IPv4 THEN AnswerIPs(addrCall.x4, "A") ELSE <<>>)
       /\ (resolver.IPv6 /\ ~GoodAddrResponse(addrCall.x6, addrCall.secure))
          => /\ addrRes.err # NoErr
             /\ Delivered(addrCall.x6).err = NoErr
                => addrRes.err \in {ErrAddrRcode(Delivered(addrCall.x6).msg),
                                    ErrNXDomain, ErrAddrUnauth}
       /\ (~resolver.IPv6 /\ ~resolver.IPv4)
          => (addrRes.err = NoErr /\ addrRes.ipList = <<>>)

\* Both families queried, an aliased AAAA answer with a foreign record and
\* one A record.
C23_Witness ==
    /\ dpc = "addr" /\ resolver.IPv6 /\ resolver.IPv4 /\ addrRes.err = NoErr
    /\ Delivered(addrCall.x6).msg.Answer = MixedAnswer("AAAA", "v6")
    /\ addrRes.ipList = <<IP("v6", 2), IP("v6", 1), IP("v4", 1)>>

-----------------------------------------------------------------------------
(* SpecByName: one call of ConnectByName, ConnectByNameAsync or
   ConnectByNameAsync2, with the goroutines it starts *)

\* Stands for the program's MaxParallelConnections (30), scaled so that
\* address lists longer than the token pool are within reach.
MaxParallelConnections == 2

\* Most addresses (AAAA and A together) the resolver returns for the host.
MaxAddrs == 4

ErrResolver == "error obtaining resolver address"
ErrNoTLSAFound == "no TLSA records found"
ErrNoAddresses == "no addresses found"
ErrAllFailed == "failed to connect to any server address for " \o HostName

\* Stands for the program's IPv6Headstart (25 ms), in clock ticks.
IPv6Headstart == 2

Entries ==
    {[fn |-> "ConnectByName", pkixfallback |-> TRUE],
     [fn |-> "ConnectByNameAsync", pkixfallback |-> TRUE]}
    \cup {[fn |-> "ConnectByNameAsync2", pkixfallback |-> b] : b \in BOOLEAN}

\* What the resolver may answer to the three queries of a call.
HostTLSA == <<RR_TLSA(TLSAQname, RdataList[11])>>
ByNameTLSAExchanges ==
    { [fails |-> 0, failKind |-> "timeout", udp |-> u, tcp |-> Failure(ErrNet)] :
        u \in {Failure(ErrNet),
               Reply(Msg("NOERROR", FALSE, FALSE, HostTLSA)),
               Reply(Msg("NOERROR", TRUE, FALSE, <<>>)),
               Reply(Msg("NXDOMAIN", TRUE, FALSE, <<>>)),
               Reply(Msg("NOERROR", TRUE, FALSE, HostTLSA))} }

AddrExchanges(rrtype, fam, counts) ==
    { [fails |-> 0, failKind |-> "timeout", udp |-> u, tcp |-> Failure(ErrNet)] :
        u \in {Failure(ErrNet), Reply(Msg("SERVFAIL", FALSE, FALSE, <<>>))}
              \cup {Reply(Msg("NOERROR", ad, FALSE, AddrAnswer(rrtype, fam, n))) :
                        ad \in BOOLEAN, n \in counts} }
AAAAExchanges == AddrExchanges("AAAA", "v6", {0, 1, MaxAddrs - 1})
AExchanges == AddrExchanges("A", "v4", {0, 1})

\* What the server at an address does when dialed.
ServerBehaviours ==
    {[tcpok |-> FALSE, chain |-> <<>>],
     [tcpok |-> TRUE, chain |-> <<Leaf, IntCA, RootCA>>],
     [tcpok |-> TRUE, chain |-> <<PrivLeaf, PrivRoot>>]}

\* A goroutine of the per-address closure: pc and its own config; conn and
\* err hold DialTLS's results until they are stored in the shared
\* variables; resp is the Response it builds for the results channel.
\* A field is reset once the goroutine has no further use for it.
Task(pc, cfg, c, e, resp) ==
    [pc |-> pc, config |-> cfg, conn |-> c, err |-> e, resp |-> resp]
NoResponse == Return(NilConn, FALSE, NewConfig, NoErr)
NewTask == Task("new", NewConfig, NilConn, NoErr, NoResponse)
GoneTask == Task("gone", NewConfig, NilConn, NoErr, NoResponse)

ByNameInit ==
    /\ entry \in Entries
    /\ mainPc = "resolver"
    /\ tlsa = NilTLSA /\ iplist = <<>> /\ lookups = <<>>
    /\ tasks = <<>> /\ launcher = [pc |-> "none", i |-> 1]
    /\ conn = NilConn /\ err = NoErr
    /\ tokens = 0 /\ results = "open" /\ done = FALSE /\ wg = 0
    /\ ret = NoReturn /\ dialed = {} /\ dialedOk = {} /\ age = <<>>
    /\ VerifyIdle /\ MatchIdle /\ DnsIdle /\ AuthIdle /\ CopyIdle
    /\ StartIdle /\ CallIdle

\* No step of the program moves the clock.
ByNameRest ==
    UNCHANGED <<verifyVars, matchVars, dnsVars, authVars, copyVars,
               startVars, callVars, age>>

Async == entry.fn # "ConnectByName"

\* `return ...`, and with it the deferred close(done) of the async base.
MainReturn(c, hasConfig, cfg, e) ==
    /\ ret' = Return(c, hasConfig, cfg, e)
    /\ mainPc' = "returned"
    /\ done' = IF Async THEN TRUE ELSE done

\* `if !pkixfallback && (tlsa == nil)`
RequireTLSA_Never(pkixfallback, t) == FALSE

RequireTLSA(pkixfallback, t) == ~pkixfallback /\ t.isnil

\* `needSecure := (tlsa != nil)`
needSecure_Never(t) == FALSE

needSecure(t) == ~t.isnil

\* History kept in lookups: every response the exchanges xs delivered had
\* the AD bit.
AllAD(xs) ==
    \A k \in 1..Len(xs) : xs[k].udp.err = NoErr /\ xs[k].udp.msg.AuthenticatedData

\* --- the calling goroutine

\* `resolver, err := GetResolver("")`
MainGetResolver ==
    /\ mainPc = "resolver"
    /\ \E ok \in BOOLEAN :
        IF ok
        THEN /\ mainPc' = "tlsa"
             /\ UNCHANGED <<ret, done, err>>
        ELSE /\ MainReturn(NilConn, FALSE, NewConfig, ErrResolver)
             /\ err' = "resolv.conf"
    /\ UNCHANGED <<entry, tlsa, iplist, lookups, tasks, launcher, conn, tokens,
                   results, wg, dialed, dialedOk>>
    /\ ByNameRest

\* `tlsa, err := GetTLSA(...)` with result r and, in the async base, the
\* check that refuses to go on without TLSA records when pkixfallback is
\* false.
gotTLSA(r) ==
    /\ lookups' = Append(lookups, [q |-> "TLSA", secure |-> FALSE,
                                   err |-> r.err, unauth |-> FALSE])
    /\ err' = r.err
    /\ tlsa' = r.tlsa
    /\ IF r.err # NoErr
       THEN MainReturn(NilConn, FALSE, NewConfig, r.err)
       ELSE IF Async /\ RequireTLSA(entry.pkixfallback, r.tlsa)
       THEN MainReturn(NilConn, FALSE, NewConfig, ErrNoTLSAFound)
       ELSE mainPc' = "addrs" /\ UNCHANGED <<ret, done>>

MainGetTLSA ==
    /\ mainPc = "tlsa"
    /\ \E x \in ByNameTLSAExchanges : gotTLSA(GetTLSA(NewResolver, HostName, x))
    /\ UNCHANGED <<entry, iplist, tasks, launcher, conn, tokens, results, wg,
                   dialed, dialedOk>>
    /\ ByNameRest

\* `iplist, err := GetAddresses(resolver, hostname, needSecure)` with
\* result r, the empty list check and, in the async base, the start of the
\* launcher goroutine.  allAD: every response read had the AD bit.
gotAddresses(r, secure, allAD) ==
    /\ lookups' = Append(lookups, [q |-> "ADDR", secure |-> secure,
                                   err |-> r.err,
                                   unauth |-> /\ r.err = NoErr
                                              /\ ~tlsa.isnil
                                              /\ ~allAD])
    /\ err' = r.err
    /\ iplist' = r.ipList
    /\ IF r.err # NoErr
       THEN /\ MainReturn(NilConn, FALSE, NewConfig, r.err)
            /\ UNCHANGED <<tasks, launcher>>
       ELSE IF Len(r.ipList) = 0
       THEN /\ MainReturn(NilConn, FALSE, NewConfig, ErrNoAddresses)
            /\ UNCHANGED <<tasks, launcher>>
       ELSE IF Async
       THEN /\ mainPc' = "range"
            /\ tasks' = [i \in 1..Len(r.ipList) |-> NewTask]
            /\ launcher' = [pc |-> "add", i |-> 1]
            /\ UNCHANGED <<ret, done>>
       ELSE /\ mainPc' = "loop"
            /\ UNCHANGED <<tasks, launcher, ret, done>>

MainGetAddresses ==
    /\ mainPc = "addrs"
    /\ \E x6 \in AAAAExchanges, x4 \in AExchanges :
        gotAddresses(GetAddresses(NewResolver, HostName, needSecure(tlsa), x6, x4),
                     needSecure(tlsa), AllAD(<<x6, x4>>))
    /\ UNCHANGED <<entry, tlsa, conn, tokens, results, wg, dialed,
                   dialedOk>>
    /\ ByNameRest

\* The connection DialTLS's result r stands for, at address ip.
connOf(r, ip) == IF r.conn = "nil" THEN NilConn ELSE Conn(ip)

\* ConnectByName's loop body for the address at launcher.i: a Config, the
\* TLSA data, DialTLS (result r); the first success is returned.
mainDialed_ReturnOnFailure(r, ip) ==
    /\ conn' = connOf(r, ip) /\ err' = r.err
    /\ dialed' = dialed \cup {launcher.i}
    /\ dialedOk' = IF r.err = NoErr THEN dialedOk \cup {launcher.i} ELSE dialedOk
    /\ MainReturn(connOf(r, ip), r.err = NoErr, r.cfg, r.err)
    /\ UNCHANGED launcher

mainDialed(r, ip) ==
    /\ conn' = connOf(r, ip) /\ err' = r.err
    /\ dialed' = dialed \cup {launcher.i}
    /\ dialedOk' = IF r.err = NoErr THEN dialedOk \cup {launcher.i} ELSE dialedOk
    /\ IF r.err # NoErr
       THEN /\ launcher' = [launcher EXCEPT !.i = @ + 1]
            /\ UNCHANGED <<mainPc, ret, done>>
       ELSE /\ MainReturn(connOf(r, ip), TRUE, r.cfg, r.err)
            /\ UNCHANGED launcher

MainDialNext ==
    /\ mainPc = "loop" /\ launcher.i <= Len(iplist)
    /\ \E b \in ServerBehaviours :
        mainDialed(DialTLS(SetTLSA(NewConfigFor(HostName, iplist[launcher.i]), tlsa),
                           b.tcpok, b.chain),
                   iplist[launcher.i])
    /\ UNCHANGED <<entry, tlsa, iplist, lookups, tasks, tokens, results, wg>>
    /\ ByNameRest

\* ConnectByName after the last address failed.
MainLoopEnd ==
    /\ mainPc = "loop" /\ launcher.i > Len(iplist)
    /\ MainReturn(conn, FALSE, NewConfig, ErrAllFailed)
    /\ UNCHANGED <<entry, tlsa, iplist, lookups, tasks, launcher, conn, err,
                   tokens, results, wg, dialed, dialedOk>>
    /\ ByNameRest

\* `for r := range results` ends because the launcher closed the channel.
MainRangeEnd ==
    /\ mainPc = "range" /\ results = "closed"
    /\ MainReturn(conn, FALSE, NewConfig, ErrAllFailed)
    /\ UNCHANGED <<entry, tlsa, iplist, lookups, tasks, launcher, conn, err,
                   tokens, results, wg, dialed, dialedOk>>
    /\ ByNameRest

\* --- the launcher goroutine

\* `wg.Add(1)` for the address at launcher.i
LauncherAdd ==
    /\ launcher.pc = "add"
    /\ wg' = wg + 1
    /\ launcher' = [launcher EXCEPT !.pc = "token"]
    /\ UNCHANGED <<entry, mainPc, tlsa, iplist, lookups, tasks, conn, err,
                   tokens, results, done, ret, dialed, dialedOk>>
    /\ ByNameRest

\* `tokens <- struct{}{}` blocks while the pool is full; then the `go`
\* statement starts the task and the loop moves on.
tokenFree_Unbounded == TRUE

tokenFree == tokens < MaxParallelConnections

LauncherSpawn ==
    /\ launcher.pc = "token"
    /\ tokenFree
    /\ tokens' = tokens + 1
    /\ tasks' = [tasks EXCEPT ![launcher.i].pc = "start"]
    /\ launcher' = IF launcher.i = Len(iplist)
                   THEN [launcher EXCEPT !.pc = "wait"]
                   ELSE [pc |-> "add", i |-> launcher.i + 1]
    /\ UNCHANGED <<entry, mainPc, tlsa, iplist, lookups, conn, err, results,
                   done, wg, ret, dialed, dialedOk>>
    /\ ByNameRest

\* `wg.Wait(); close(results)`
LauncherClose ==
    /\ launcher.pc = "wait"
    /\ wg = 0
    /\ results' = "closed"
    /\ launcher' = [launcher EXCEPT !.pc = "exit"]
    /\ UNCHANGED <<entry, mainPc, tlsa, iplist, lookups, tasks, conn, err,
                   tokens, done, wg, ret, dialed, dialedOk>>
    /\ ByNameRest

\* --- the task goroutine for the address at position i

TaskRest == UNCHANGED <<entry, tlsa, iplist, lookups, launcher, results>>

\* The task's Config: NewConfig, SetTLSA, NoPKIXfallback unless pkixfallback.
taskConfig(ip) ==
    IF ~entry.pkixfallback
    THEN NoPKIXfallback(SetTLSA(NewConfigFor(HostName, ip), tlsa))
    ELSE SetTLSA(NewConfigFor(HostName, ip), tlsa)

\* The Config, the IPv4 delay, DialTLS (result r), and the store of its
\* first result into the conn variable of the enclosing function, which
\* all tasks share.
taskDialed(i, r) ==
    /\ tasks' = [tasks EXCEPT ![i] = Task("werr", r.cfg, connOf(r, iplist[i]),
                                          r.err, NoResponse)]
    /\ conn' = connOf(r, iplist[i])
    /\ dialedOk' = IF r.err = NoErr THEN dialedOk \cup {i} ELSE dialedOk

\* `if ip4 := ip.To4(); ip4 != nil { time.Sleep(IPv6Headstart) }` has
\* returned: at once for an IPv6 address, after IPv6Headstart for an IPv4
\* one.
headstartOver_NoSleep(i) == TRUE

headstartOver(i) ==
    (To4(iplist[i]) /\ age # <<>>) => age[i] >= IPv6Headstart

TaskDial(i) ==
    /\ tasks[i].pc = "start"
    /\ headstartOver(i)
    /\ \E b \in ServerBehaviours :
        taskDialed(i, DialTLS(taskConfig(iplist[i]), b.tcpok, b.chain))
    /\ dialed' = dialed \cup {i}
    /\ UNCHANGED <<mainPc, err, tokens, done, wg, ret>>
    /\ TaskRest /\ ByNameRest

\* The store of DialTLS's second result into the shared err variable.
TaskWriteErr(i) ==
    /\ tasks[i].pc = "werr"
    /\ err' = tasks[i].err
    /\ tasks' = [tasks EXCEPT ![i].pc = "rconn", ![i].conn = NilConn,
                              ![i].err = NoErr]
    /\ UNCHANGED <<mainPc, conn, tokens, done, wg, ret, dialed, dialedOk>>
    /\ TaskRest /\ ByNameRest

\* `&Response{config: config, conn: conn, err: err}` is evaluated on
\* entering the select: first the shared conn is read ...
TaskReadConn(i) ==
    /\ tasks[i].pc = "rconn"
    /\ tasks' = [tasks EXCEPT ![i].pc = "rerr", ![i].config = NewConfig,
                              ![i].resp = Return(conn, TRUE, tasks[i].config, NoErr)]
    /\ UNCHANGED <<mainPc, conn, err, tokens, done, wg, ret, dialed,
                   dialedOk>>
    /\ TaskRest /\ ByNameRest

\* ... then the shared err.
TaskReadErr(i) ==
    /\ tasks[i].pc = "rerr"
    /\ tasks' = [tasks EXCEPT ![i].pc = "select", ![i].resp.err = err]
    /\ UNCHANGED <<mainPc, conn, err, tokens, done, wg, ret, dialed,
                   dialedOk>>
    /\ TaskRest /\ ByNameRest

\* `case results <- ...` meets the caller's `range results`: the caller
\* returns the first response whose err is nil and goes on receiving
\* otherwise.
TaskSend(i) ==
    /\ tasks[i].pc = "select"
    /\ mainPc = "range" /\ results = "open"
    /\ tasks' = [tasks EXCEPT ![i].pc = "release", ![i].resp = NoResponse]
    /\ IF tasks[i].resp.err = NoErr
       THEN MainReturn(tasks[i].resp.conn, TRUE, tasks[i].resp.config, NoErr)
       ELSE UNCHANGED <<mainPc, ret, done>>
    /\ UNCHANGED <<conn, err, tokens, wg, dialed, dialedOk>>
    /\ TaskRest /\ ByNameRest

\* `case <-done:`
TaskDone(i) ==
    /\ tasks[i].pc = "select"
    /\ done
    /\ tasks' = [tasks EXCEPT ![i].pc = "exit", ![i].resp = NoResponse]
    /\ UNCHANGED <<mainPc, conn, err, tokens, done, wg, ret, dialed,
                   dialedOk>>
    /\ TaskRest /\ ByNameRest

\* `<-tokens`, in the send case only
TaskRelease(i) ==
    /\ tasks[i].pc = "release"
    /\ tokens > 0
    /\ tokens' = tokens - 1
    /\ tasks' = [tasks EXCEPT ![i].pc = "exit"]
    /\ UNCHANGED <<mainPc, conn, err, done, wg, ret, dialed, dialedOk>>
    /\ TaskRest /\ ByNameRest

\* `defer wg.Done()`
TaskExit(i) ==
    /\ tasks[i].pc = "exit"
    /\ wg' = wg - 1
    /\ tasks' = [tasks EXCEPT ![i] = GoneTask]
    /\ UNCHANGED <<mainPc, conn, err, tokens, done, ret, dialed, dialedOk>>
    /\ TaskRest /\ ByNameRest

TaskStep ==
    \E i \in 1..Len(tasks) :
        \/ TaskDial(i) \/ TaskWriteErr(i) \/ TaskReadConn(i) \/ TaskReadErr(i)
        \/ TaskSend(i) \/ TaskDone(i) \/ TaskRelease(i) \/ TaskExit(i)

ByNameNext ==
    \/ MainGetResolver \/ MainGetTLSA \/ MainGetAddresses
    \/ MainDialNext \/ MainLoopEnd \/ MainRangeEnd
    \/ LauncherAdd \/ LauncherSpawn \/ LauncherClose
    \/ TaskStep

SpecByName == ByNameInit /\ [][ByNameNext]_vars

-----------------------------------------------------------------------------
(* SpecHeadstart: ConnectByNameAsyncBase from the start of its launcher
   goroutine (both lookups have succeeded), with time.  A tick is half an
   IPv6Headstart.  Steps that wait neither for the network nor for a timer
   take no time on that scale: the clock advances only when the only steps
   left are DialTLS calls (and sleeps before them) and blocked channel
   operations. *)

HeadstartLists ==
    { AddrAnswerIPs("v6", n6) \o AddrAnswerIPs("v4", n4) :
        n6 \in {0, 1, 2}, n4 \in {0, 1} } \ {<<>>}

HeadstartInit ==
    /\ entry \in {e \in Entries : e.fn # "ConnectByName"}
    /\ tlsa \in {NilTLSA, TLSAinfo(TLSAQname, "", <<RdataList[11]>>)}
    /\ ~RequireTLSA(entry.pkixfallback, tlsa)
    /\ iplist \in HeadstartLists
    /\ lookups = <<[q |-> "TLSA", secure |-> FALSE, err |-> NoErr,
                    unauth |-> FALSE],
                   [q |-> "ADDR", secure |-> needSecure(tlsa), err |-> NoErr,
                    unauth |-> FALSE]>>
    /\ mainPc = "range"
    /\ tasks = [i \in 1..Len(iplist) |-> NewTask]
    /\ launcher = [pc |-> "add", i |-> 1]
    /\ age = [i \in 1..Len(iplist) |-> 0]
    /\ conn = NilConn /\ err = NoErr
    /\ tokens = 0 /\ results = "open" /\ done = FALSE /\ wg = 0
    /\ ret = NoReturn /\ dialed = {} /\ dialedOk = {}
    /\ VerifyIdle /\ MatchIdle /\ DnsIdle /\ AuthIdle /\ CopyIdle
    /\ StartIdle /\ CallIdle

\* A goroutine can take a step that waits for nothing.
Prompt ==
    \/ launcher.pc = "add"
    \/ launcher.pc = "token" /\ tokens < MaxParallelConnections
    \/ launcher.pc = "wait" /\ wg = 0
    \/ mainPc = "range" /\ results = "closed"
    \/ \E i \in 1..Len(tasks) :
          \/ tasks[i].pc \in {"werr", "rconn", "rerr", "release", "exit"}
          \/ tasks[i].pc = "select" /\ (done \/ mainPc = "range")

\* Time passes for the tasks that sleep or dial.
Tick ==
    /\ age # <<>>
    /\ ~Prompt
    /\ \E i \in 1..Len(tasks) : tasks[i].pc = "start" /\ age[i] < IPv6Headstart
    /\ age' = [i \in 1..Len(age) |->
                  IF tasks[i].pc = "start" /\ age[i] < IPv6Headstart
                  THEN age[i] + 1 ELSE age[i]]
    /\ UNCHANGED <<entry, mainPc, tlsa, iplist, lookups, tasks, launcher, conn,
                   err, tokens, results, done, wg, ret, dialed, dialedOk>>
    /\ UNCHANGED <<verifyVars, matchVars, dnsVars, authVars, copyVars,
               startVars, callVars>>

HeadstartNext ==
    \/ MainRangeEnd
    \/ LauncherAdd \/ LauncherSpawn \/ LauncherClose
    \/ TaskStep
    \/ Tick

SpecHeadstart == HeadstartInit /\ [][HeadstartNext]_vars

-----------------------------------------------------------------------------
(* Claims about the connect-by-name functions *)

Returned == mainPc = "returned"
LookupFailed == \E k \in 1..Len(lookups) : lookups[k].err # NoErr

\* C6: no DialTLS is attempted unless the TLSA lookup and then the address
\* lookup both returned without error; when GetTLSA returned TLSA records
\* the address lookup is made with secure = true and accepts only responses
\* with AD; an error from either lookup ends the call without any dial.
C6_DialOnlyAfterLookups ==
    /\ dialed # {}
       => /\ Len(lookups) = 2
          /\ lookups[1].q = "TLSA" /\ lookups[1].err = NoErr
          /\ lookups[2].q = "ADDR" /\ lookups[2].err = NoErr
    /\ Len(lookups) = 2
       => /\ lookups[1].q = "TLSA" /\ lookups[1].err = NoErr
          /\ lookups[2].q = "ADDR"
          /\ ~tlsa.isnil => (lookups[2].secure /\ ~lookups[2].unauth)
    /\ LookupFailed
       => /\ Returned /\ ret.err # NoErr /\ ret.conn.isnil /\ ~ret.hasConfig
          /\ ret.err = lookups[Len(lookups)].err
          /\ dialed = {} /\ tasks = <<>>

C6_Witness ==
    /\ Async /\ ~tlsa.isnil /\ Len(lookups) = 2 /\ lookups[2].secure
    /\ Cardinality(dialed) >= 2

\* C7: a return with a nil error carries a non-nil connection and a Config,
\* and they belong to one attempt: the connection is the one DialTLS
\* established with that very Config.
C7_ReturnFromOneAttempt ==
    (Returned /\ Async /\ ret.err = NoErr)
    => /\ ret.hasConfig /\ ~ret.conn.isnil
       /\ ret.conn.ip = ret.config.Server.Ipaddr

\* C8: ConnectByNameAsync2(host, port, false) whose TLSA lookup yields nil
\* without error fails with 'no TLSA records found' before any address
\* lookup or dial.
C8_NoTLSANoFallbackFails ==
    (/\ entry = [fn |-> "ConnectByNameAsync2", pkixfallback |-> FALSE]
     /\ Len(lookups) >= 1 /\ lookups[1].err = NoErr /\ tlsa.isnil)
    => /\ Returned /\ ret.err = ErrNoTLSAFound
       /\ ret.conn.isnil /\ ~ret.hasConfig
       /\ Len(lookups) = 1 /\ dialed = {} /\ tasks = <<>>

C8_Witness ==
    /\ entry = [fn |-> "ConnectByNameAsync2", pkixfallback |-> FALSE]
    /\ Len(lookups) = 1 /\ lookups[1].err = NoErr /\ tlsa.isnil
    /\ Returned /\ ret.err = ErrNoTLSAFound

\* C9: a connection returned without error by
\* ConnectByNameAsync2(host, port, false) comes with a Config whose TLSA is
\* non-nil, whose PKIX is false and whose Okdane is true.
C9_DaneOnlyReturnIsOkdane ==
    (/\ entry = [fn |-> "ConnectByNameAsync2", pkixfallback |-> FALSE]
     /\ Returned /\ ret.err = NoErr)
    => /\ ret.hasConfig
       /\ ~ret.config.TLSA.isnil /\ ~ret.config.PKIX /\ ret.config.Okdane

\* Every goroutine the async base started has run to its end.
AllTerminated ==
    /\ launcher.pc = "exit"
    /\ \A i \in 1..Len(tasks) : tasks[i].pc = "gone"

\* C10: after ConnectByNameAsyncBase returns, the launcher and every task
\* eventually terminate.  Stated on states: once the call has returned,
\* either all of them are gone or one of them can still take a step.
C10_GoroutinesTerminate ==
    (Returned /\ Async /\ tasks # <<>>)
    => (AllTerminated \/ ENABLED ByNameNext)

\* C11: when DialTLS failed for every address the async base returns the
\* 'failed to connect to any server address' error for the host, and only
\* after every address was attempted; when the DialTLS of some address
\* succeeded it returns a connection and no error.
C11_ExhaustionIffAllFailed ==
    (Returned /\ Async /\ tasks # <<>>)
    => /\ dialedOk = {}
          => (ret.err = ErrAllFailed /\ dialed = 1..Len(iplist))
       /\ dialedOk # {}
          => (ret.err = NoErr /\ ~ret.conn.isnil)

FreshConfigFor(cfg, ip) ==
    /\ cfg.Server = [Name |-> HostName, Ipaddr |-> ip]
    /\ cfg.TLSA.isnil = tlsa.isnil
    /\ Uncheck(cfg.TLSA) = SetTLSA(NewConfig, tlsa).TLSA
    /\ cfg.DANE /\ cfg.PKIX /\ ~cfg.DiagMode /\ ~cfg.NoVerify
    /\ cfg.Appname = "" /\ ~cfg.DaneEEname /\ ~cfg.SMTPAnyMode

\* C22: ConnectByName dials the addresses one at a time in the order of
\* GetAddresses' list; it returns the connection and the fresh Config of the
\* first attempt whose DialTLS succeeds and dials no address after it; a
\* failed attempt does not end the iteration; when every attempt failed it
\* returns the 'failed to connect to any server address' error.
C22_SequentialFirstSuccess ==
    (entry.fn = "ConnectByName" /\ ~LookupFailed /\ Len(lookups) = 2)
    => /\ dialed = 1..Cardinality(dialed)
       /\ Cardinality(dialed) <= Len(iplist)
       /\ dialedOk \subseteq {Cardinality(dialed)}
       /\ tasks = <<>>
       /\ dialedOk # {}
          => /\ Returned /\ ret.err = NoErr /\ ret.hasConfig
             /\ ret.conn = Conn(iplist[Cardinality(dialed)])
             /\ FreshConfigFor(ret.config, iplist[Cardinality(dialed)])
       /\ (Returned /\ dialedOk = {} /\ iplist # <<>>)
          => /\ ret.err = ErrAllFailed /\ ~ret.hasConfig
             /\ dialed = 1..Len(iplist)
       /\ (~Returned /\ Len(iplist) > 0)
          => (dialedOk = {} /\ launcher.i = Cardinality(dialed) + 1)

\* The third address succeeded after two failures, with TLSA data, and
\* one address was left undialed.
C22_Witness ==
    /\ entry.fn = "ConnectByName" /\ Returned /\ ~tlsa.isnil
    /\ Len(iplist) = MaxAddrs /\ dialed = {1, 2, 3} /\ dialedOk = {3}
    /\ ret.err = NoErr /\ ret.conn = Conn(iplist[3])
    /\ ret.config.Okdane

\* Tasks whose pc is one of pcs.
TasksAt(pcs) == {i \in 1..Len(tasks) : tasks[i].pc \in pcs}

\* The pcs of a task between its start and the end of its select statement.
InFlightPcs == {"start", "werr", "rconn", "rerr", "select", "release"}

\* C28: tasks share no variable but the results channel, the done signal
\* and the tokens: the dial outcome is private to the task, so the Response
\* a task offers on the results channel holds the connection and the error
\* of its own DialTLS.
C28_TaskOutcomePrivate ==
    \A i \in TasksAt({"select"}) :
        /\ tasks[i].resp.err = NoErr <=> i \in dialedOk
        /\ IF i \in dialedOk
           THEN ~tasks[i].resp.conn.isnil /\ tasks[i].resp.conn.ip = iplist[i]
           ELSE tasks[i].resp.conn.isnil

\* C29: a task gives its token back before it ends, on the send arm and on
\* the done arm alike: the tokens held are those of the tasks that are
\* still between their start and the end of their select, and none is held
\* once all tasks have ended.
C29_TokenReleasedOnBothArms ==
    (Async /\ tasks # <<>>)
    => tokens = Cardinality(TasksAt(InFlightPcs))

\* C30 as stated: at most MaxParallelConnections tasks have been started
\* and have not yet ended.
C30_AtMostMaxTasksAlive ==
    Cardinality(TasksAt(InFlightPcs \cup {"exit"})) <= MaxParallelConnections

\* C30: at most MaxParallelConnections tasks are between their start and
\* the end of their select statement, so at most that many dials are in
\* flight at once, however many addresses were resolved; a task that has
\* left its select and has only its deferred wg.Done() left is not counted.
C30_AtMostMaxTasksInFlight ==
    /\ tokens <= MaxParallelConnections
    /\ Cardinality(TasksAt(InFlightPcs)) <= tokens
    /\ Cardinality(TasksAt({"start"})) <= MaxParallelConnections

C30_Witness ==
    /\ Len(iplist) > MaxParallelConnections
    /\ launcher.pc = "token" /\ ~tokenFree
    /\ Cardinality(TasksAt({"start"})) = MaxParallelConnections

====
